---- MODULE Spec2Model ----
(***************************************************************************)
(* Model of the MAX7301 driver: the transactional I/O adapter              *)
(* (src/src/expander/transactional.rs), the Expander port operations       *)
(* (src/src/expander/mod.rs), the register map (src/src/registers.rs), the *)
(* configurator (src/src/config.rs), the immediate I/O adapter             *)
(* (src/src/expander/immediate.rs), the device doubles                     *)
(* (src/src/interface.rs, test_spy) and the SPI interface                  *)
(* (src/src/interface.rs, spi).                                            *)
(*                                                                         *)
(* Eight specifications share the variables: Spec runs the transactional   *)
(* adapter call by call, SpecWide runs its refresh and write_back over pin *)
(* sets spread across the port range, SpecMT runs the adapter step by step *)
(* under two threads, SpecCfg runs configure() ... commit() chains on an   *)
(* Expander, SpecBank builds and merges a single BankConfig, SpecIO runs   *)
(* the Expander port operations and the immediate adapter on the           *)
(* port-level device, SpecFn applies the register conversion and the       *)
(* single-port read input by input, SpecSpi runs the register accesses of  *)
(* the SPI interface on chip select and the SPI master.  Each leaves the   *)
(* others' variables alone.                                                *)
(*                                                                         *)
(* A usize word is modelled as the set of its set bit positions, cut at    *)
(* the word width of the build (32 or 64): shifts move the positions and   *)
(* drop what leaves the word.  A u8 is the set of its set bits in 0..7.    *)
(***************************************************************************)
EXTENDS Integers, Sequences, FiniteSets, TLC

VARIABLES
    usize_bits,  \* width of usize on the build target
    issued,      \* TransactionalIO.issued
    cache,       \* TransactionalIO.cache
    dirty,       \* TransactionalIO.dirty
    fresh,       \* TransactionalIO.fresh
    dev,         \* the device: set of ports whose level is high
    fault,       \* TRUE once a panic has aborted the program
    last,        \* the operation that produced this state and its result
    bus,         \* bus transactions issued by that operation, in order
    locks,       \* mutex acquisitions made by that operation
    pend,        \* history: user writes not yet flushed nor discarded
                 \* (under threads: the latest user write to each port)
    sess,        \* history: what happened since the latest refresh call
    steps,       \* number of operations performed
    config,      \* Expander.config (the in-memory ExpanderConfig)
    building,    \* TRUE while a Configurator borrows the expander
    expander_config_dirty,  \* Configurator.expander_config_dirty
    banks,       \* Configurator.banks
    regs,        \* the register file of the device (configuration side)
    hist,        \* history: the setter calls made on the configurator
    pins,        \* ports for which the immediate adapter handed out a pin
    pc,          \* per thread: the step of the call it is in ("idle": none)
    loc,         \* per thread: the local variables of that call
    holder,      \* the thread inside IOMutex::lock, 0 when the mutex is free
    cs,          \* SpiInterface.cs: the level of the chip-select pin
    wire         \* what that operation did on chip select and SPI, in order

\* the variables of the configurator side
cfgvars == <<config, building, expander_config_dirty, banks, regs, hist>>

\* the variables of the transactional adapter
tiovars == <<usize_bits, issued, cache, dirty, fresh, pend, sess>>

\* the variables of the threads sharing one adapter
mtvars == <<pc, loc, holder>>

\* the variables of the SPI interface
spivars == <<cs, wire>>

vars == <<usize_bits, issued, cache, dirty, fresh, dev, fault, last, bus,
          locks, pend, sess, steps, config, building, expander_config_dirty,
          banks, regs, hist, pins, pc, loc, holder, cs, wire>>

\* ------------------------------------------------------------------ bounds
MaxSteps == 4
MaxFailAt == 2
MaxThreadCalls == 2

\* ------------------------------------------------------- program constants
FirstPort == 4
LastPort == 31
SinglePortBase == 32
PortRangeBase == 64
BankConfigBase == 9
LastBank == 6

Ports == FirstPort..LastPort
Panic == -1

\* 0xFF as a set of bit positions
Mask_FF == 0..7
\* 0x01 as a set of bit positions
Mask_01 == {0}
\* 0xFFFFFFFC as a set of bit positions
Mask_FFFFFFFC == 2..31

UsizeWidths == {32, 64}

\* ------------------------------------------------------------ word algebra
\* word << n in a word of w bits
Shl(word, n, w) == {b + n : b \in word} \cap (0..(w - 1))
\* word >> n
Shr(word, n) == {b - n : b \in {x \in word : x >= n}}
\* word as u8
AsU8(word) == word \cap (0..7)
\* usize::trailing_zeros of a non-zero word
trailing_zeros(word) == CHOOSE b \in word : \A c \in word : b <= c
\* 1 << port
Bit(port, w) == Shl({0}, port, w)

\* ------------------------------------------------------------ register map
valid_port(port) == IF port \in FirstPort..LastPort THEN port ELSE Panic

valid_bank(bank) == IF bank \in 0..LastBank THEN bank ELSE Panic

\* variant: PortRange registers are placed at the SinglePort base
RegisterAddress_range_low(reg) ==
    CASE reg.tag = "Noop" -> 0
      [] reg.tag = "Configuration" -> 4
      [] reg.tag = "TransitionDetectMask" -> 6
      [] reg.tag = "BankConfig" ->
            IF valid_bank(reg.n) = Panic THEN Panic
            ELSE valid_bank(reg.n) + BankConfigBase
      [] reg.tag = "SinglePort" ->
            IF valid_port(reg.n) = Panic THEN Panic
            ELSE valid_port(reg.n) + SinglePortBase
      [] reg.tag = "PortRange" ->
            IF valid_port(reg.n) = Panic THEN Panic
            ELSE valid_port(reg.n) + SinglePortBase

\* From<Register> for RegisterAddress
RegisterAddress(reg) ==
    CASE reg.tag = "Noop" -> 0
      [] reg.tag = "Configuration" -> 4
      [] reg.tag = "TransitionDetectMask" -> 6
      [] reg.tag = "BankConfig" ->
            IF valid_bank(reg.n) = Panic THEN Panic
            ELSE valid_bank(reg.n) + BankConfigBase
      [] reg.tag = "SinglePort" ->
            IF valid_port(reg.n) = Panic THEN Panic
            ELSE valid_port(reg.n) + SinglePortBase
      [] reg.tag = "PortRange" ->
            IF valid_port(reg.n) = Panic THEN Panic
            ELSE valid_port(reg.n) + PortRangeBase

\* ------------------------------------------------------------- the device
\* ports a register access at addr touches (none for a non-port register)
PortsAt(addr) ==
    IF addr \in (SinglePortBase + FirstPort)..(SinglePortBase + LastPort)
    THEN {addr - SinglePortBase}
    ELSE IF addr \in (PortRangeBase + FirstPort)..(PortRangeBase + LastPort)
    THEN {p \in Ports : p - (addr - PortRangeBase) \in 0..7}
    ELSE {}

IsRange(addr) ==
    addr \in (PortRangeBase + FirstPort)..(PortRangeBase + LastPort)

\* bit offset of port p inside the byte of the register at addr
OffsetAt(addr, p) == IF IsRange(addr) THEN p - (addr - PortRangeBase) ELSE 0

Device_read_register(devv, addr) ==
    {OffsetAt(addr, p) : p \in PortsAt(addr) \cap devv}

Device_write_register(devv, addr, value) ==
    (devv \ PortsAt(addr))
        \cup {p \in PortsAt(addr) : OffsetAt(addr, p) \in value}

\* ------------------------------------------------------------ the Expander
\* each yields the bus transaction the call makes (addr = Panic: it panics)
\* variant: read_ports reads the single-port register of start_port
Expander_read_ports_single(start_port) ==
    [rw |-> "r",
     addr |-> RegisterAddress([tag |-> "SinglePort", n |-> start_port]),
     val |-> {}, ok |-> TRUE]

Expander_read_ports(start_port) ==
    [rw |-> "r",
     addr |-> RegisterAddress([tag |-> "PortRange", n |-> start_port]),
     val |-> {}, ok |-> TRUE]

Expander_write_port(port, bit) ==
    [rw |-> "w",
     addr |-> RegisterAddress([tag |-> "SinglePort", n |-> port]),
     val |-> IF bit THEN Mask_01 ELSE {}, ok |-> TRUE]

Expander_write_ports(start_port, bits) ==
    [rw |-> "w",
     addr |-> RegisterAddress([tag |-> "PortRange", n |-> start_port]),
     val |-> bits, ok |-> TRUE]

\* the device after the successful writes of a transaction sequence
RECURSIVE ApplyBus(_, _)
ApplyBus(devv, txs) ==
    IF txs = <<>> THEN devv
    ELSE LET tx == Head(txs)
         IN ApplyBus(IF tx.rw = "w" /\ tx.ok
                     THEN Device_write_register(devv, tx.addr, tx.val)
                     ELSE devv,
                     Tail(txs))

\* ------------------------------------------------- TransactionalIO: refresh
\* variant: load_buffer |= port_values as usize, the shift forgotten
refresh_load_unshifted(load_buffer, port_values, start_port, w) ==
    load_buffer \cup port_values

\* load_buffer |= (port_values as usize) << start_port
refresh_load(load_buffer, port_values, start_port, w) ==
    load_buffer \cup Shl(port_values, start_port, w)

\* variant: fresh_buffer |= 0x01 << start_port, the start port alone
refresh_fresh_start_only(fresh_buffer, start_port, w) ==
    fresh_buffer \cup Shl(Mask_01, start_port, w)

\* fresh_buffer |= 0xFFusize << start_port
refresh_fresh(fresh_buffer, start_port, w) ==
    fresh_buffer \cup Shl(Mask_FF, start_port, w)

\* variant: refresh leaves dirty as it is
refresh_dirty_kept(dirtyv) == dirtyv

\* self.dirty.store(0, Ordering::Release) at the start of refresh
refresh_dirty(dirtyv) == {}

\* variant: ports_to_read &= !0x01, one port consumed per read
refresh_consume_one(ports_to_read) == ports_to_read \ Mask_01

\* ports_to_read &= !0xFFusize
refresh_consume(ports_to_read) == ports_to_read \ Mask_FF

\* the while loop of refresh; failAt = k makes the k-th bus transaction fail
RECURSIVE refresh_loop(_, _, _, _, _, _, _, _)
refresh_loop(ports_to_read, start_port, load_buffer, fresh_buffer, txs, devv, w, failAt) ==
    IF ports_to_read = {}
    THEN [res |-> "ok", cache |-> load_buffer, fresh |-> fresh_buffer,
          bus |-> txs]
    ELSE LET skip == trailing_zeros(ports_to_read)
             shifted == Shr(ports_to_read, skip)
             sp == start_port + skip
             tx == Expander_read_ports(sp)
             port_values == Device_read_register(devv, tx.addr)
         IN IF tx.addr = Panic
            THEN [res |-> "panic", cache |-> load_buffer,
                  fresh |-> fresh_buffer, bus |-> txs]
            ELSE IF Len(txs) + 1 = failAt
            THEN [res |-> "err", cache |-> load_buffer,
                  fresh |-> fresh_buffer,
                  bus |-> Append(txs, [tx EXCEPT !.ok = FALSE])]
            ELSE refresh_loop(refresh_consume(shifted), sp,
                              refresh_load(load_buffer, port_values, sp, w),
                              refresh_fresh(fresh_buffer, sp, w),
                              Append(txs, [tx EXCEPT !.val = port_values]),
                              devv, w, failAt)

\* variant: the buffers are stored even when a read failed
refresh_store_always(res, buffer, old) == buffer

\* self.cache.store / self.fresh.store, reached only when no read failed
refresh_store(res, buffer, old) == IF res = "ok" THEN buffer ELSE old

\* variant: let mut start_port = 0
refresh_run_start_zero(issuedv, devv, w, failAt) ==
    refresh_loop(Shr(issuedv, FirstPort), 0, {}, {}, <<>>, devv, w, failAt)

\* the whole of refresh from a given adapter state
refresh_run(issuedv, devv, w, failAt) ==
    refresh_loop(Shr(issuedv, FirstPort), FirstPort, {}, {}, <<>>,
                 devv, w, failAt)

\* ---------------------------------------------- TransactionalIO: write_back
Strategies == {"Exact", "StompClean", "StompAny"}

\* variant: the Exact arm takes the StompAny mask
ok_to_write_exact_stomps(strategy, ports_to_write, freshv) ==
    CASE strategy = "Exact" -> Mask_FFFFFFFC
      [] strategy = "StompClean" -> freshv
      [] strategy = "StompAny" -> Mask_FFFFFFFC

\* variant: the StompClean arm takes the StompAny mask
ok_to_write_clean_stomps(strategy, ports_to_write, freshv) ==
    CASE strategy = "Exact" -> ports_to_write
      [] strategy = "StompClean" -> Mask_FFFFFFFC
      [] strategy = "StompAny" -> Mask_FFFFFFFC

\* the match on strategy that initialises ok_to_write
ok_to_write_for(strategy, ports_to_write, freshv) ==
    CASE strategy = "Exact" -> ports_to_write
      [] strategy = "StompClean" -> freshv
      [] strategy = "StompAny" -> Mask_FFFFFFFC

\* variant: ok_to_write & 0x01 == 0x01
batch_ok_low_bit(ok_to_write) == Mask_01 \subseteq ok_to_write

\* ok_to_write & 0xFF == 0xFF
batch_ok(ok_to_write) == Mask_FF \subseteq ok_to_write

\* variant: cache as u8, the shift forgotten
batch_values_unshifted(cachev, start_port) == AsU8(cachev)

\* (cache >> start_port) as u8
batch_values(cachev, start_port) == AsU8(Shr(cachev, start_port))

\* variant: cache & 1 != 0, the shift forgotten
single_value_unshifted(cachev, start_port, w) == (cachev \cap Mask_01) # {}

\* cache & (1 << start_port) != 0
single_value(cachev, start_port, w) == (cachev \cap Bit(start_port, w)) # {}

\* variant: one bit is consumed after a batch write too
consume_one(ports_to_write, batch) == ports_to_write \ Mask_01

\* ports_to_write &= !0xFF  or  ports_to_write &= !0x01
consume(ports_to_write, batch) ==
    IF batch THEN ports_to_write \ Mask_FF ELSE ports_to_write \ Mask_01

\* variant: ok_to_write is not shifted along with ports_to_write
ok_to_write_unshifted(ok_to_write, skip) == ok_to_write

\* ok_to_write >>= skip
ok_to_write_shifted(ok_to_write, skip) == Shr(ok_to_write, skip)

\* the while loop of write_back; failAt = k makes the k-th transaction fail
RECURSIVE write_back_loop(_, _, _, _, _, _, _)
write_back_loop(ports_to_write, ok_to_write, start_port, cachev, txs, w, failAt) ==
    IF ports_to_write = {}
    THEN [res |-> "ok", bus |-> txs]
    ELSE LET skip == trailing_zeros(ports_to_write)
             ptw == Shr(ports_to_write, skip)
             okw == ok_to_write_shifted(ok_to_write, skip)
             sp == start_port + skip
             batch == batch_ok(okw)
             tx == IF batch
                   THEN Expander_write_ports(sp, batch_values(cachev, sp))
                   ELSE Expander_write_port(sp, single_value(cachev, sp, w))
         IN IF tx.addr = Panic
            THEN [res |-> "panic", bus |-> txs]
            ELSE IF Len(txs) + 1 = failAt
            THEN [res |-> "err", bus |-> Append(txs, [tx EXCEPT !.ok = FALSE])]
            ELSE write_back_loop(consume(ptw, batch), okw, sp, cachev,
                                 Append(txs, tx), w, failAt)

\* variant: dirty is cleared whatever the outcome of the writes
write_back_dirty_cleared(res, dirtyv) == {}

\* variant: the final store to dirty is missing
write_back_dirty_kept(res, dirtyv) == dirtyv

\* self.dirty.store(0, Ordering::Release), reached only when no write failed
write_back_dirty(res, dirtyv) == IF res = "ok" THEN {} ELSE dirtyv

\* the whole of write_back from a given adapter state
write_back_run(strategy, dirtyv, freshv, cachev, w, failAt) ==
    write_back_loop(dirtyv, ok_to_write_for(strategy, dirtyv, freshv), 0,
                    cachev, <<>>, w, failAt)

\* ------------------------------------------------------------ configurator
\* u8 << n (only shifts below 8 occur)
Shl8(byte, n) == {b + n : b \in byte} \cap (0..7)

\* 0b11 as a set of bit positions
Mask_11 == {0, 1}

PortModes == {"Output", "InputFloating", "InputPullup"}

\* From<PortMode> for u8
PortMode_u8(cfg) ==
    CASE cfg = "Output" -> {0}
      [] cfg = "InputFloating" -> {1}
      [] cfg = "InputPullup" -> {0, 1}

\* (valid_port(port) / 4 - 1, port % 4); bank = Panic when valid_port panics
port_bank_and_offset(port) ==
    IF valid_port(port) = Panic
    THEN [bank |-> Panic, offset |-> Panic]
    ELSE [bank |-> (valid_port(port) \div 4) - 1, offset |-> port % 4]

\* BankConfig::default and the banks of a new Configurator
BankConfig_default == {}

\* variant: the field is OR-ed in without clearing the old mode first
BankConfig_set_port_no_clear(self, port_offset, cfg) ==
    self \cup Shl8(PortMode_u8(cfg), port_offset * 2)

\* BankConfig::set_port, for the offsets 0..3 that port % 4 yields (the
\* match of the source also admits offset 4, which no caller passes)
BankConfig_set_port(self, port_offset, cfg) ==
    (self \ Shl8(Mask_11, port_offset * 2))
        \cup Shl8(PortMode_u8(cfg), port_offset * 2)

\* BankConfig::keep_mask
keep_mask(self) ==
    UNION {IF (self \cap Shl8(Mask_11, p * 2)) = {}
           THEN Shl8(Mask_11, p * 2) ELSE {} : p \in 0..3}

\* variant: a bank is overwritten as soon as one pin of it is set
status_eager(self) ==
    IF keep_mask(self) = Mask_FF THEN "Unchanged" ELSE "Overwrite"

\* BankConfig::status
status(self) ==
    CASE keep_mask(self) = Mask_FF -> "Unchanged"
      [] keep_mask(self) = {} -> "Overwrite"
      [] OTHER -> "ReadModify"

\* variant: current | self.0, the keep mask forgotten
merge_unmasked(self, current) == current \cup self

\* BankConfig::merge
merge(self, current) == (current \cap keep_mask(self)) \cup self

\* ExpanderConfig::default
ExpanderConfig_default == [shutdown |-> TRUE, transition_detect |-> FALSE]

\* variant: bit 0 follows shutdown instead of its negation
ExpanderConfig_u8_plain(cfg) ==
    (IF cfg.shutdown THEN {0} ELSE {})
        \cup (IF cfg.transition_detect THEN {7} ELSE {})

\* From<ExpanderConfig> for u8
ExpanderConfig_u8(cfg) ==
    (IF cfg.shutdown THEN {} ELSE {0})
        \cup (IF cfg.transition_detect THEN {7} ELSE {})

\* Expander::write_config
Expander_write_config(cfg) ==
    [rw |-> "w", addr |-> RegisterAddress([tag |-> "Configuration", n |-> 0]),
     val |-> ExpanderConfig_u8(cfg), ok |-> TRUE]

\* Expander::write_bank_config
Expander_write_bank_config(bank, cfg) ==
    [rw |-> "w", addr |-> RegisterAddress([tag |-> "BankConfig", n |-> bank]),
     val |-> cfg, ok |-> TRUE]

\* the read of Expander::read_modify_bank_config
Expander_read_bank_config(bank) ==
    [rw |-> "r", addr |-> RegisterAddress([tag |-> "BankConfig", n |-> bank]),
     val |-> {}, ok |-> TRUE]

\* addresses of the register file the configurator reaches
CfgAddrs == {4} \cup (BankConfigBase..(BankConfigBase + LastBank))

\* TestSpyInterface::read_register
Regs_read_register(regsv, addr) == regsv[addr]

\* TestSpyInterface::write_register
Regs_write_register(regsv, addr, value) == [regsv EXCEPT ![addr] = value]

\* let current = self.iface.read_register(addr)? in read_modify_bank_config
commit_current(regsv, addr) == Regs_read_register(regsv, addr)

\* variant: a failed transaction is issued a second time before returning
commit_failed_retry(regsv, txs, tx) ==
    [res |-> "err", regs |-> regsv,
     bus |-> Append(Append(txs, [tx EXCEPT !.ok = FALSE]),
                    [tx EXCEPT !.ok = FALSE])]

\* the ? of commit: the error of transaction tx is returned at once
commit_failed(regsv, txs, tx) ==
    [res |-> "err", regs |-> regsv,
     bus |-> Append(txs, [tx EXCEPT !.ok = FALSE])]

\* the for loop of commit; failAt = k makes the k-th bus transaction fail
RECURSIVE commit_loop(_, _, _, _, _)
commit_loop(bank, banksv, regsv, txs, failAt) ==
    IF bank > LastBank
    THEN [res |-> "ok", regs |-> regsv, bus |-> txs]
    ELSE LET bank_config == banksv[bank]
             st == status(bank_config)
             rd == Expander_read_bank_config(bank)
             current == commit_current(regsv, rd.addr)
             wr == Expander_write_bank_config(bank,
                       IF st = "Overwrite" THEN bank_config
                       ELSE merge(bank_config, current))
             pre == IF st = "ReadModify"
                    THEN Append(txs, [rd EXCEPT !.val = current])
                    ELSE txs
         IN IF st = "Unchanged"
            THEN commit_loop(bank + 1, banksv, regsv, txs, failAt)
            ELSE IF st = "ReadModify" /\ Len(txs) + 1 = failAt
            THEN commit_failed(regsv, txs, rd)
            ELSE IF Len(pre) + 1 = failAt
            THEN commit_failed(regsv, pre, wr)
            ELSE commit_loop(bank + 1, banksv,
                             Regs_write_register(regsv, wr.addr, wr.val),
                             Append(pre, wr), failAt)

\* variant: the Configuration register is written on every commit
commit_writes_config_always(dirtyflag) == TRUE

\* if self.expander_config_dirty
commit_writes_config(dirtyflag) == dirtyflag

\* the whole of Configurator::commit
commit_run(banksv, dirtyflag, cfg, regsv, failAt) ==
    LET r == commit_loop(0, banksv, regsv, <<>>, failAt)
        wc == Expander_write_config(cfg)
    IN IF r.res # "ok" \/ ~commit_writes_config(dirtyflag) THEN r
       ELSE IF Len(r.bus) + 1 = failAt
       THEN commit_failed(r.regs, r.bus, wc)
       ELSE [res |-> "ok",
             regs |-> Regs_write_register(r.regs, wc.addr, wc.val),
             bus |-> Append(r.bus, wc)]

\* Configurator::set_port on the banks array
Configurator_set_port(banksv, port, mode) ==
    LET bo == port_bank_and_offset(port)
    IN IF bo.bank = Panic THEN [res |-> "panic", banks |-> banksv]
       ELSE [res |-> "ok",
             banks |-> [banksv EXCEPT ![bo.bank] =
                            BankConfig_set_port(@, bo.offset, mode)]]

\* the for loop of Configurator::ports
RECURSIVE ports_loop(_, _, _)
ports_loop(banksv, iter, mode) ==
    IF iter = <<>> THEN [res |-> "ok", banks |-> banksv]
    ELSE LET r == Configurator_set_port(banksv, Head(iter), mode)
         IN IF r.res = "panic" THEN r
            ELSE ports_loop(r.banks, Tail(iter), mode)

\* ------------------------------------------------------------- environment
\* ports the program asks pins for; 3 and 32 are not ports of the device
PinPool == {4, 12, 14, 31}
PinInputs == PinPool \cup {3, 32}

\* reset levels of the device
DevPatterns == {{4, 11, 13, 14, 19, 24, 25, 30}}

\* adapter states the program reaches by port_pin calls followed by
\* set_high / set_low calls, before any refresh or write_back
StartStates ==
    {[issued |-> {}, hi |-> {}, lo |-> {}],
     [issued |-> {14}, hi |-> {}, lo |-> {}],
     [issued |-> {11, 19}, hi |-> {}, lo |-> {}],
     [issued |-> 11..17, hi |-> {11, 14, 15}, lo |-> {12, 13, 16, 17}],
     [issued |-> 11..18, hi |-> {11, 12, 15, 18}, lo |-> {13, 14, 16, 17}],
     [issued |-> 11..18, hi |-> 11..18, lo |-> {}],
     [issued |-> 24..31, hi |-> {24, 27, 31}, lo |-> {25, 26, 28, 29, 30}]}

NoWrites == [hi |-> {}, lo |-> {}]

Done(op, port, strategy, res, val) ==
    [op |-> op, port |-> port, strategy |-> strategy, res |-> res,
     val |-> val]

\* reset values of the register file: Configuration 0x01, banks 0b10101010
Regs_reset == [a \in CfgAddrs |-> IF a = 4 THEN {0} ELSE {1, 3, 5, 7}]

NoCalls ==
    [named |-> [p \in Ports |-> "none"], over |-> FALSE, sd |-> FALSE,
     td |-> FALSE, shape |-> "empty", S |-> {}, m |-> "none",
     given |-> ExpanderConfig_default, pre |-> Regs_reset,
     clean |-> ExpanderConfig_default, kept |-> ExpanderConfig_default]

\* the configurator side at rest, as Expander::new leaves it
CfgIdle ==
    /\ config = ExpanderConfig_default
    /\ building = FALSE
    /\ expander_config_dirty = FALSE
    /\ banks = [b \in 0..LastBank |-> BankConfig_default]
    /\ regs = Regs_reset
    /\ hist = NoCalls

Threads == {1, 2}

\* the locals of refresh, write_back, write_port and read_port
NoLocals ==
    [call |-> 0, strategy |-> "-", port |-> 0, bit |-> FALSE,
     negate |-> FALSE, ports |-> {}, ok_to_write |-> {}, start_port |-> 0,
     cache |-> {}, load_buffer |-> {}, fresh_buffer |-> {}]

\* no thread is inside a call and the mutex is free
MtIdle ==
    /\ pc = [t \in Threads |-> "idle"]
    /\ loc = [t \in Threads |-> NoLocals]
    /\ holder = 0

\* the SPI interface at rest: chip select released, nothing on the wire
SpiIdle ==
    /\ cs = "high"
    /\ wire = <<>>

\* the transactional adapter at rest, as TransactionalIO::new leaves it
TioIdle ==
    /\ usize_bits = 32
    /\ issued = {}
    /\ cache = {}
    /\ dirty = {}
    /\ fresh = {}
    /\ pend = NoWrites
    /\ sess = [refreshed |-> FALSE, norefresh |-> TRUE, iss |-> {},
               rd |-> {}, snap |-> {}, hi |-> {}, lo |-> {},
               dhi |-> {}, dlo |-> {}, any |-> FALSE]

\* -------------------------------------------------------------------- Init
Init ==
    /\ usize_bits \in UsizeWidths
    /\ dev \in DevPatterns
    /\ \E s \in StartStates :
          /\ issued = s.issued
          /\ cache = s.hi
          /\ dirty = s.hi \cup s.lo
          /\ fresh = s.hi \cup s.lo
          /\ pend = [hi |-> s.hi, lo |-> s.lo]
          /\ sess = [refreshed |-> FALSE, norefresh |-> TRUE, iss |-> {},
                     rd |-> {}, snap |-> dev, hi |-> s.hi, lo |-> s.lo,
                     dhi |-> {}, dlo |-> {}, any |-> FALSE]
    /\ fault = FALSE
    /\ last = Done("new", 0, "-", "ok", FALSE)
    /\ bus = <<>>
    /\ locks = 0
    /\ steps = 0
    /\ CfgIdle
    /\ MtIdle
    /\ SpiIdle
    /\ pins = {}

CanStep == ~fault /\ steps < MaxSteps

\* ----------------------------------------------------------------- actions
\* variant: issued.store(1 << port) in place of fetch_or
port_pin_store(port) ==
    /\ CanStep
    /\ IF valid_port(port) = Panic
       THEN /\ fault' = TRUE
            /\ last' = Done("port_pin", port, "-", "panic", FALSE)
            /\ UNCHANGED issued
       ELSE /\ issued' = Bit(valid_port(port), usize_bits)
            /\ last' = Done("port_pin", port, "-", "ok", FALSE)
            /\ UNCHANGED fault
    /\ bus' = <<>>
    /\ locks' = 0
    /\ steps' = steps + 1
    /\ UNCHANGED <<usize_bits, cache, dirty, fresh, dev, pend, sess>>
    /\ UNCHANGED <<cfgvars, pins, mtvars, spivars>>

\* TransactionalIO::port_pin
port_pin(port) ==
    /\ CanStep
    /\ IF valid_port(port) = Panic
       THEN /\ fault' = TRUE
            /\ last' = Done("port_pin", port, "-", "panic", FALSE)
            /\ UNCHANGED issued
       ELSE /\ issued' = issued \cup Bit(valid_port(port), usize_bits)
            /\ last' = Done("port_pin", port, "-", "ok", FALSE)
            /\ UNCHANGED fault
    /\ bus' = <<>>
    /\ locks' = 0
    /\ steps' = steps + 1
    /\ UNCHANGED <<usize_bits, cache, dirty, fresh, dev, pend, sess>>
    /\ UNCHANGED <<cfgvars, pins, mtvars, spivars>>

\* a PortPin of the adapter goes out of scope: PortPin has no Drop impl
PortPin_drop(port) ==
    /\ CanStep
    /\ port \in issued
    /\ last' = Done("drop", port, "-", "ok", FALSE)
    /\ bus' = <<>>
    /\ locks' = 0
    /\ steps' = steps + 1
    /\ UNCHANGED <<usize_bits, issued, cache, dirty, fresh, dev, fault, pend,
                   sess>>
    /\ UNCHANGED <<cfgvars, pins, mtvars, spivars>>

\* variant: the write does not mark the port fresh
write_port_not_fresh(port, bit) ==
    LET or_bit == Bit(port, usize_bits)
    IN /\ cache' = IF bit THEN cache \cup or_bit ELSE cache \ or_bit
       /\ dirty' = dirty \cup or_bit
       /\ fresh' = fresh
       /\ bus' = <<>>
       /\ locks' = 0

\* variant: the write also goes to the device at once, under the lock
write_port_through(port, bit) ==
    LET or_bit == Bit(port, usize_bits)
    IN /\ cache' = IF bit THEN cache \cup or_bit ELSE cache \ or_bit
       /\ dirty' = dirty \cup or_bit
       /\ fresh' = fresh \cup or_bit
       /\ bus' = <<Expander_write_port(port, bit)>>
       /\ locks' = 1

\* ExpanderIO::write_port for TransactionalIO
write_port(port, bit) ==
    LET or_bit == Bit(port, usize_bits)
    IN /\ cache' = IF bit THEN cache \cup or_bit ELSE cache \ or_bit
       /\ dirty' = dirty \cup or_bit
       /\ fresh' = fresh \cup or_bit
       /\ bus' = <<>>
       /\ locks' = 0

NoteWrite(w, port, bit) ==
    [w EXCEPT !.hi = IF bit THEN @ \cup {port} ELSE @ \ {port},
              !.lo = IF bit THEN @ \ {port} ELSE @ \cup {port}]

\* OutputPin::set_high / set_low of a PortPin of the adapter
PinWrite(op, port, bit) ==
    /\ CanStep
    /\ port \in issued
    /\ write_port(port, bit)
    /\ last' = Done(op, port, "-", "ok", FALSE)
    /\ pend' = NoteWrite(pend, port, bit)
    /\ sess' = NoteWrite(sess, port, bit)
    /\ steps' = steps + 1
    /\ UNCHANGED <<usize_bits, issued, dev, fault>>
    /\ UNCHANGED <<cfgvars, pins, mtvars, spivars>>

set_high(port) == PinWrite("set_high", port, TRUE)

set_low(port) == PinWrite("set_low", port, FALSE)

\* variant: the fresh check is missing
read_port_unchecked(port) ==
    IF (cache \cap Bit(port, usize_bits)) # {} THEN "high" ELSE "low"

\* ExpanderIO::read_port for TransactionalIO: "panic" or the bit
read_port(port) ==
    IF (fresh \cap Bit(port, usize_bits)) = {}
    THEN "panic"
    ELSE IF (cache \cap Bit(port, usize_bits)) # {} THEN "high" ELSE "low"

\* InputPin::is_high / is_low of a PortPin of the adapter
PinRead(op, port, negate) ==
    /\ CanStep
    /\ port \in issued
    /\ LET r == read_port(port)
       IN IF r = "panic"
          THEN /\ fault' = TRUE
               /\ last' = Done(op, port, "-", "panic", FALSE)
          ELSE /\ fault' = fault
               /\ last' = Done(op, port, "-", "ok",
                               IF negate THEN r # "high" ELSE r = "high")
    /\ bus' = <<>>
    /\ locks' = 0
    /\ steps' = steps + 1
    /\ UNCHANGED <<usize_bits, issued, cache, dirty, fresh, dev, pend, sess>>
    /\ UNCHANGED <<cfgvars, pins, mtvars, spivars>>

is_high(port) == PinRead("is_high", port, FALSE)

is_low(port) == PinRead("is_low", port, TRUE)

\* ports covered by the successful transactions of a sequence
RECURSIVE Covered(_)
Covered(txs) ==
    IF txs = <<>> THEN {}
    ELSE (IF Head(txs).ok THEN PortsAt(Head(txs).addr) ELSE {})
            \cup Covered(Tail(txs))

\* TransactionalIO::refresh
refresh(failAt) ==
    /\ CanStep
    /\ LET r == refresh_run(issued, dev, usize_bits, failAt)
       IN /\ failAt = 0 \/ r.res = "err"
          /\ dirty' = refresh_dirty(dirty)
          /\ cache' = refresh_store(r.res, r.cache, cache)
          /\ fresh' = refresh_store(r.res, r.fresh, fresh)
          /\ fault' = (r.res = "panic")
          /\ last' = Done("refresh", 0, "-", r.res, FALSE)
          /\ bus' = r.bus
          /\ locks' = Len(r.bus)
          /\ sess' = [refreshed |-> r.res = "ok", norefresh |-> FALSE,
                      iss |-> issued, rd |-> Covered(r.bus), snap |-> dev,
                      hi |-> {}, lo |-> {}, dhi |-> pend.hi, dlo |-> pend.lo,
                      any |-> FALSE]
    /\ pend' = NoWrites
    /\ steps' = steps + 1
    /\ UNCHANGED <<usize_bits, issued, dev>>
    /\ UNCHANGED <<cfgvars, pins, mtvars, spivars>>

\* TransactionalIO::write_back
write_back(strategy, failAt) ==
    /\ CanStep
    /\ LET r == write_back_run(strategy, dirty, fresh, cache, usize_bits,
                               failAt)
       IN /\ failAt = 0 \/ r.res = "err"
          /\ dirty' = write_back_dirty(r.res, dirty)
          /\ dev' = ApplyBus(dev, r.bus)
          /\ fault' = (r.res = "panic")
          /\ last' = Done("write_back", 0, strategy, r.res, FALSE)
          /\ bus' = r.bus
          /\ locks' = Len(r.bus)
          /\ pend' = IF r.res = "ok" THEN NoWrites ELSE pend
    /\ sess' = [sess EXCEPT !.any = @ \/ strategy = "StompAny"]
    /\ steps' = steps + 1
    /\ UNCHANGED <<usize_bits, issued, cache, fresh>>
    /\ UNCHANGED <<cfgvars, pins, mtvars, spivars>>

Next ==
    \/ \E port \in PinInputs : port_pin(port)
    \/ \E port \in PinPool : PortPin_drop(port)
    \/ \E port \in PinPool : set_high(port)
    \/ \E port \in PinPool : set_low(port)
    \/ \E port \in PinPool : is_high(port)
    \/ \E port \in PinPool : is_low(port)
    \/ \E failAt \in 0..MaxFailAt : refresh(failAt)
    \/ \E strategy \in Strategies, failAt \in 0..MaxFailAt :
          write_back(strategy, failAt)

Spec == Init /\ [][Next]_vars

\* --------------------------------- refresh and write_back over wide pin sets
MaxWideSteps == 2

\* ports spread over the four 8-port windows that start at port 4
WidePorts == {4, 12, 13, 20, 28, 31}

\* adapter states the program reaches by port_pin calls for any of these
\* ports followed by a set_high or set_low on each pin
WideStartStates ==
    {[issued |-> S, hi |-> S \cap {4, 13, 28}, lo |-> S \ {4, 13, 28}] :
        S \in SUBSET WidePorts}

InitWide ==
    /\ usize_bits \in UsizeWidths
    /\ dev \in DevPatterns
    /\ \E s \in WideStartStates :
          /\ issued = s.issued
          /\ cache = s.hi
          /\ dirty = s.hi \cup s.lo
          /\ fresh = s.hi \cup s.lo
          /\ pend = [hi |-> s.hi, lo |-> s.lo]
          /\ sess = [refreshed |-> FALSE, norefresh |-> TRUE, iss |-> {},
                     rd |-> {}, snap |-> dev, hi |-> s.hi, lo |-> s.lo,
                     dhi |-> {}, dlo |-> {}, any |-> FALSE]
    /\ fault = FALSE
    /\ last = Done("new", 0, "-", "ok", FALSE)
    /\ bus = <<>>
    /\ locks = 0
    /\ steps = 0
    /\ CfgIdle
    /\ MtIdle
    /\ SpiIdle
    /\ pins = {}

\* refresh and write_back, called MaxWideSteps times at most
Wide_refresh(failAt) == steps < MaxWideSteps /\ refresh(failAt)

Wide_write_back(strategy, failAt) ==
    steps < MaxWideSteps /\ write_back(strategy, failAt)

NextWide ==
    \/ \E failAt \in 0..MaxFailAt : Wide_refresh(failAt)
    \/ \E strategy \in Strategies, failAt \in 0..MaxFailAt :
          Wide_write_back(strategy, failAt)

SpecWide == InitWide /\ [][NextWide]_vars

TypeOK ==
    /\ issued \subseteq 0..(usize_bits - 1)
    /\ cache \subseteq 0..(usize_bits - 1)
    /\ dirty \subseteq 0..(usize_bits - 1)
    /\ fresh \subseteq 0..(usize_bits - 1)
    /\ dev \subseteq Ports

\* ------------------------------------- the configurator as a state machine
MaxCalls == 4

\* the transaction of a commit that fails is at most this one
MaxCommitFailAt == 3

\* ports and iterators the program configures; 3 and 32 are not ports
CfgPorts == {4, 7, 8, 31}
CfgPortInputs == CfgPorts \cup {3, 32}
CfgIters ==
    {<<>>, <<4>>, <<5, 6>>, <<4, 5, 6>>, <<4, 5, 6, 7>>,
     <<6, 7, 8, 9, 10, 11, 12, 13>>, <<7, 28, 29, 30, 31>>, <<5, 5>>,
     <<4, 32>>}

\* expanders the program reaches by earlier configure() chains: a new one;
\* after ports(4..=7, Output).port(8, InputPullup).shutdown(false).commit();
\* after detect_transitions(true).commit(); after shutdown(false) on a
\* configurator that was dropped without commit. clean is the pair the
\* committed chains alone have set.
CfgStartStates ==
    {[config |-> ExpanderConfig_default, regs |-> Regs_reset,
      clean |-> ExpanderConfig_default],
     [config |-> [shutdown |-> FALSE, transition_detect |-> FALSE],
      regs |-> [Regs_reset EXCEPT ![9] = {0, 2, 4, 6},
                                  ![10] = {0, 1, 3, 5, 7}],
      clean |-> [shutdown |-> FALSE, transition_detect |-> FALSE]],
     [config |-> [shutdown |-> TRUE, transition_detect |-> TRUE],
      regs |-> [Regs_reset EXCEPT ![4] = {7}],
      clean |-> [shutdown |-> TRUE, transition_detect |-> TRUE]],
     [config |-> [shutdown |-> FALSE, transition_detect |-> FALSE],
      regs |-> Regs_reset,
      clean |-> ExpanderConfig_default]}

InitCfg ==
    /\ TioIdle
    /\ MtIdle
    /\ SpiIdle
    /\ dev = {}
    /\ pins = {}
    /\ fault = FALSE
    /\ last = Done("new", 0, "-", "ok", FALSE)
    /\ bus = <<>>
    /\ locks = 0
    /\ steps = 0
    /\ building = FALSE
    /\ expander_config_dirty = FALSE
    /\ banks = [b \in 0..LastBank |-> BankConfig_default]
    /\ \E s \in CfgStartStates :
          /\ config = s.config
          /\ regs = s.regs
          /\ hist = [NoCalls EXCEPT !.given = s.config, !.pre = s.regs,
                                    !.clean = s.clean, !.kept = s.clean]

CanCall == ~fault /\ steps < MaxCalls

\* history: a port()/ports() call that named the ports of S
NotePorts(h, S, mode, kind) ==
    [h EXCEPT !.named = [p \in Ports |-> IF p \in S THEN mode ELSE @[p]],
              !.over = @ \/ \E p \in S \cap Ports :
                                h.named[p] \notin {"none", mode},
              !.shape = IF @ = "empty" /\ kind = "ports"
                        THEN "ports" ELSE "other",
              !.S = S, !.m = mode]

Range(iter) == {iter[i] : i \in 1..Len(iter)}

\* Expander::configure (Configurator::new)
Expander_configure ==
    /\ CanCall
    /\ ~building
    /\ building' = TRUE
    /\ expander_config_dirty' = FALSE
    /\ banks' = [b \in 0..LastBank |-> BankConfig_default]
    /\ hist' = [NoCalls EXCEPT !.given = hist.given, !.pre = hist.pre,
                               !.clean = hist.clean, !.kept = hist.clean]
    /\ last' = Done("configure", 0, "-", "ok", FALSE)
    /\ bus' = <<>>
    /\ steps' = steps + 1
    /\ UNCHANGED <<config, regs, fault>>
    /\ UNCHANGED <<tiovars, dev, pins, locks, mtvars, spivars>>

\* the part Configurator::port and Configurator::ports share
SetPorts(op, r, S, mode) ==
    /\ CanCall
    /\ building
    /\ banks' = r.banks
    /\ fault' = (r.res = "panic")
    /\ hist' = IF r.res = "panic" THEN hist ELSE NotePorts(hist, S, mode, op)
    /\ last' = Done(op, 0, "-", r.res, FALSE)
    /\ bus' = <<>>
    /\ steps' = steps + 1
    /\ UNCHANGED <<config, regs, building, expander_config_dirty>>
    /\ UNCHANGED <<tiovars, dev, pins, locks, mtvars, spivars>>

\* Configurator::port
Configurator_port(port, mode) ==
    SetPorts("port", Configurator_set_port(banks, port, mode), {port}, mode)

\* Configurator::ports
Configurator_ports(iter, mode) ==
    SetPorts("ports", ports_loop(banks, iter, mode), Range(iter), mode)

\* self.expander.config.shutdown = enable
shutdown_field(cfg, enable) == [cfg EXCEPT !.shutdown = enable]

\* self.expander.config.transition_detect = enable
transition_detect_field(cfg, enable) ==
    [cfg EXCEPT !.transition_detect = enable]

\* the part Configurator::shutdown and detect_transitions share
SetGlobal(op, cfg, given, clean, sd, td) ==
    /\ CanCall
    /\ building
    /\ config' = cfg
    /\ expander_config_dirty' = TRUE
    /\ hist' = [hist EXCEPT !.sd = @ \/ sd, !.td = @ \/ td,
                            !.shape = "other", !.given = given,
                            !.clean = clean]
    /\ last' = Done(op, 0, "-", "ok", FALSE)
    /\ bus' = <<>>
    /\ steps' = steps + 1
    /\ UNCHANGED <<regs, building, banks, fault>>
    /\ UNCHANGED <<tiovars, dev, pins, locks, mtvars, spivars>>

\* Configurator::shutdown
Configurator_shutdown(enable) ==
    SetGlobal("shutdown", shutdown_field(config, enable),
              [hist.given EXCEPT !.shutdown = enable],
              [hist.clean EXCEPT !.shutdown = enable], TRUE, FALSE)

\* Configurator::detect_transitions
Configurator_detect_transitions(enable) ==
    SetGlobal("detect_transitions", transition_detect_field(config, enable),
              [hist.given EXCEPT !.transition_detect = enable],
              [hist.clean EXCEPT !.transition_detect = enable], FALSE, TRUE)

\* Configurator::commit; the configurator is consumed
Configurator_commit(failAt) ==
    /\ CanCall
    /\ building
    /\ LET r == commit_run(banks, expander_config_dirty, config, regs, failAt)
       IN /\ failAt = 0 \/ r.res = "err"
          /\ regs' = r.regs
          /\ bus' = r.bus
          /\ last' = Done("commit", 0, "-", r.res, FALSE)
    /\ hist' = [hist EXCEPT !.pre = regs]
    /\ building' = FALSE
    /\ expander_config_dirty' = FALSE
    /\ banks' = [b \in 0..LastBank |-> BankConfig_default]
    /\ steps' = steps + 1
    /\ UNCHANGED <<config, fault>>
    /\ UNCHANGED <<tiovars, dev, pins, locks, mtvars, spivars>>

\* a Configurator going out of scope without commit: the struct has no Drop
\* impl, its banks and its dirty flag go, the expander it borrowed stays as
\* the setters left it
Configurator_drop ==
    /\ CanCall
    /\ building
    /\ building' = FALSE
    /\ expander_config_dirty' = FALSE
    /\ banks' = [b \in 0..LastBank |-> BankConfig_default]
    /\ hist' = [hist EXCEPT !.clean = hist.kept]
    /\ last' = Done("drop", 0, "-", "ok", FALSE)
    /\ bus' = <<>>
    /\ steps' = steps + 1
    /\ UNCHANGED <<config, regs, fault>>
    /\ UNCHANGED <<tiovars, dev, pins, locks, mtvars, spivars>>

NextCfg ==
    \/ Expander_configure
    \/ Configurator_drop
    \/ \E port \in CfgPortInputs, mode \in PortModes :
          Configurator_port(port, mode)
    \/ \E iter \in CfgIters, mode \in PortModes :
          Configurator_ports(iter, mode)
    \/ \E enable \in BOOLEAN : Configurator_shutdown(enable)
    \/ \E enable \in BOOLEAN : Configurator_detect_transitions(enable)
    \/ \E failAt \in 0..MaxCommitFailAt : Configurator_commit(failAt)

SpecCfg == InitCfg /\ [][NextCfg]_vars

\* ------------------- Expander port operations and the immediate adapter
\* every value of a u8, as a set of bit positions
Bytes == SUBSET (0..7)

\* .map(|v| v == 0x01) of Expander::read_port
read_port_map(v) == v = Mask_01

\* the read Expander::read_port makes
Expander_read_port(port) ==
    [rw |-> "r", addr |-> RegisterAddress([tag |-> "SinglePort", n |-> port]),
     val |-> {}, ok |-> TRUE]

\* variant: the adapter answers a write from a cache, off the bus
Immediate_write_port_cached(port, bit, failAt) ==
    [res |-> "ok", bus |-> <<>>, locks |-> 0]

\* ExpanderIO::write_port for ImmediateIO: lock, write, unwrap
Immediate_write_port(port, bit, failAt) ==
    LET tx == Expander_write_port(port, bit)
    IN IF failAt = 1
       THEN [res |-> "panic", bus |-> <<[tx EXCEPT !.ok = FALSE]>>,
             locks |-> 1]
       ELSE [res |-> "ok", bus |-> <<tx>>, locks |-> 1]

\* ExpanderIO::read_port for ImmediateIO: lock, read, unwrap
Immediate_read_port(devv, port, failAt) ==
    LET tx == Expander_read_port(port)
        v == Device_read_register(devv, tx.addr)
    IN IF failAt = 1
       THEN [res |-> "panic", bus |-> <<[tx EXCEPT !.ok = FALSE]>>,
             locks |-> 1, val |-> FALSE]
       ELSE [res |-> "ok", bus |-> <<[tx EXCEPT !.val = v]>>, locks |-> 1,
             val |-> read_port_map(v)]

\* register identifiers the program converts: every bank up to 8 and every
\* port up to 33, and 37 and 255
RegInputs ==
    {[tag |-> t, n |-> 0] : t \in {"Noop", "Configuration",
                                   "TransitionDetectMask"}}
        \cup {[tag |-> "BankConfig", n |-> b] : b \in 0..8}
        \cup {[tag |-> t, n |-> p] : t \in {"SinglePort", "PortRange"},
                                      p \in (0..33) \cup {37, 255}}

\* ports the program reads, writes and asks pins for; 3 and 32 are none
IoPorts == {12, 28, 31}
IoPortInputs == IoPorts \cup {3, 32}

\* ports the program reads one by one; 32 is none
FnPorts == {12, 31, 32}

\* bytes the program writes with write_ports
IoBytes == {{}, {0, 2, 5, 7}, 0..7}

DoneIO(op, port, res, val, reg, addr, byte) ==
    [op |-> op, port |-> port, strategy |-> "-", res |-> res, val |-> val,
     reg |-> reg, addr |-> addr, byte |-> byte]

NoReg == [tag |-> "Noop", n |-> 0]

InitIO ==
    /\ TioIdle
    /\ CfgIdle
    /\ MtIdle
    /\ SpiIdle
    /\ dev \in DevPatterns
    /\ pins = {}
    /\ fault = FALSE
    /\ last = DoneIO("new", 0, "ok", FALSE, NoReg, 0, {})
    /\ bus = <<>>
    /\ locks = 0
    /\ steps = 0

\* what every operation of this side leaves alone
IoFrame == UNCHANGED <<tiovars, cfgvars, mtvars, spivars>>

\* RegisterAddress::from(reg)
Register_into(reg) ==
    /\ CanCall
    /\ LET a == RegisterAddress(reg)
       IN /\ fault' = (a = Panic)
          /\ last' = DoneIO("into", 0, IF a = Panic THEN "panic" ELSE "ok",
                            FALSE, reg, a, {})
    /\ bus' = <<>>
    /\ locks' = 0
    /\ steps' = steps + 1
    /\ UNCHANGED <<dev, pins>>
    /\ IoFrame

\* one call of the Expander with its single bus transaction tx on the
\* device; failAt = 1 makes the transaction fail
ExpanderCall(op, port, tx, failAt, out, byte) ==
    /\ CanCall
    /\ IF tx.addr = Panic
       THEN /\ fault' = TRUE
            /\ bus' = <<>>
            /\ dev' = dev
            /\ last' = DoneIO(op, port, "panic", FALSE, NoReg, tx.addr, {})
       ELSE IF failAt = 1
       THEN /\ fault' = fault
            /\ bus' = <<[tx EXCEPT !.ok = FALSE]>>
            /\ dev' = dev
            /\ last' = DoneIO(op, port, "err", FALSE, NoReg, tx.addr, {})
       ELSE /\ fault' = fault
            /\ bus' = <<tx>>
            /\ dev' = ApplyBus(dev, <<tx>>)
            /\ last' = DoneIO(op, port, "ok", out, NoReg, tx.addr, byte)
    /\ locks' = 0
    /\ steps' = steps + 1
    /\ UNCHANGED pins
    /\ IoFrame

\* Expander::read_port on a transport that answers the read with byte v
Expander_read_port_call(port, v, failAt) ==
    ExpanderCall("read_port", port,
                 [Expander_read_port(port) EXCEPT !.val = v], failAt,
                 read_port_map(v), v)

\* Expander::read_ports on the device
Expander_read_ports_call(start_port, failAt) ==
    LET tx == Expander_read_ports(start_port)
        v == IF tx.addr = Panic THEN {}
             ELSE Device_read_register(dev, tx.addr)
    IN ExpanderCall("read_ports", start_port, [tx EXCEPT !.val = v], failAt,
                    FALSE, v)

\* Expander::write_port on the device
Expander_write_port_call(port, bit, failAt) ==
    ExpanderCall("write_port", port, Expander_write_port(port, bit), failAt,
                 bit, IF bit THEN Mask_01 ELSE {})

\* Expander::write_ports on the device
Expander_write_ports_call(start_port, bits, failAt) ==
    ExpanderCall("write_ports", start_port,
                 Expander_write_ports(start_port, bits), failAt, FALSE, bits)

\* ImmediateIO::port_pin
Immediate_port_pin(port) ==
    /\ CanCall
    /\ IF valid_port(port) = Panic
       THEN /\ fault' = TRUE
            /\ pins' = pins
            /\ last' = DoneIO("port_pin", port, "panic", FALSE, NoReg, 0, {})
       ELSE /\ fault' = fault
            /\ pins' = pins \cup {valid_port(port)}
            /\ last' = DoneIO("port_pin", port, "ok", FALSE, NoReg, 0, {})
    /\ bus' = <<>>
    /\ locks' = 0
    /\ steps' = steps + 1
    /\ UNCHANGED dev
    /\ IoFrame

\* OutputPin::set_high / set_low of a PortPin of the immediate adapter
Immediate_PinWrite(op, port, bit, failAt) ==
    /\ CanCall
    /\ port \in pins
    /\ LET r == Immediate_write_port(port, bit, failAt)
       IN /\ fault' = (r.res = "panic")
          /\ bus' = r.bus
          /\ locks' = r.locks
          /\ dev' = ApplyBus(dev, r.bus)
          /\ last' = DoneIO(op, port, r.res, FALSE, NoReg, 0, {})
    /\ steps' = steps + 1
    /\ UNCHANGED pins
    /\ IoFrame

Immediate_set_high(port, failAt) ==
    Immediate_PinWrite("set_high", port, TRUE, failAt)

Immediate_set_low(port, failAt) ==
    Immediate_PinWrite("set_low", port, FALSE, failAt)

\* InputPin::is_high / is_low of a PortPin of the immediate adapter
Immediate_PinRead(op, port, negate, failAt) ==
    /\ CanCall
    /\ port \in pins
    /\ LET r == Immediate_read_port(dev, port, failAt)
       IN /\ fault' = (r.res = "panic")
          /\ bus' = r.bus
          /\ locks' = r.locks
          /\ last' = DoneIO(op, port, r.res,
                            IF negate THEN ~r.val ELSE r.val, NoReg, 0, {})
    /\ steps' = steps + 1
    /\ UNCHANGED <<dev, pins>>
    /\ IoFrame

Immediate_is_high(port, failAt) ==
    Immediate_PinRead("is_high", port, FALSE, failAt)

Immediate_is_low(port, failAt) ==
    Immediate_PinRead("is_low", port, TRUE, failAt)

\* the signal applied to an input port changes its level
Drive(port, bit) ==
    /\ CanCall
    /\ (port \in dev) # bit
    /\ dev' = IF bit THEN dev \cup {port} ELSE dev \ {port}
    /\ last' = DoneIO("drive", port, "ok", bit, NoReg, 0, {})
    /\ bus' = <<>>
    /\ locks' = 0
    /\ steps' = steps + 1
    /\ UNCHANGED <<pins, fault>>
    /\ IoFrame

\* the register conversion and the single-port read, input by input
NextFn ==
    \/ \E reg \in RegInputs : Register_into(reg)
    \/ \E port \in FnPorts, v \in Bytes, failAt \in 0..1 :
          Expander_read_port_call(port, v, failAt)

SpecFn == InitIO /\ [][NextFn]_vars

NextIO ==
    \/ \E port \in IoPortInputs, failAt \in 0..1 :
          Expander_read_ports_call(port, failAt)
    \/ \E port \in IoPortInputs, bit \in BOOLEAN, failAt \in 0..1 :
          Expander_write_port_call(port, bit, failAt)
    \/ \E port \in IoPortInputs, bits \in IoBytes, failAt \in 0..1 :
          Expander_write_ports_call(port, bits, failAt)
    \/ \E port \in IoPortInputs : Immediate_port_pin(port)
    \/ \E port \in IoPorts, failAt \in 0..1 : Immediate_set_high(port, failAt)
    \/ \E port \in IoPorts, failAt \in 0..1 : Immediate_set_low(port, failAt)
    \/ \E port \in IoPorts, failAt \in 0..1 : Immediate_is_high(port, failAt)
    \/ \E port \in IoPorts, failAt \in 0..1 : Immediate_is_low(port, failAt)
    \/ \E port \in IoPorts, bit \in BOOLEAN : Drive(port, bit)

SpecIO == InitIO /\ [][NextIO]_vars

\* ------------------------------------------------- BankConfig on its own
\* One BankConfig (banks[0], the bank of pins 4..7) is built by set_port
\* calls with the offsets port % 4 yields, and keep_mask, status and merge
\* are applied to it; hist.named keeps the mode asked for each offset.
BankOffsets == 0..3

DoneBank(op, offset, cfg, current, out, st) ==
    [op |-> op, offset |-> offset, cfg |-> cfg, current |-> current,
     out |-> out, st |-> st]

InitBank ==
    /\ TioIdle
    /\ CfgIdle
    /\ MtIdle
    /\ SpiIdle
    /\ dev = {}
    /\ pins = {}
    /\ fault = FALSE
    /\ last = DoneBank("default", 0, "none", {}, {}, "-")
    /\ bus = <<>>
    /\ locks = 0
    /\ steps = 0

\* what the BankConfig methods leave alone
BankFrame ==
    UNCHANGED <<tiovars, dev, pins, fault, bus, locks, steps, config,
                building, expander_config_dirty, regs, mtvars, spivars>>

\* the BankConfig is still in use: its callers (commit, which consumes the
\* configurator, and the unit tests) merge a bank once and then drop it
BankLive == last.op # "merge"

\* bank.set_port(port_offset, cfg)
BankConfig_set_port_call(port_offset, cfg) ==
    /\ BankLive
    /\ banks' = [banks EXCEPT ![0] = BankConfig_set_port(@, port_offset, cfg)]
    /\ hist' = [hist EXCEPT !.named[FirstPort + port_offset] = cfg]
    /\ last' = DoneBank("set_port", port_offset, cfg, {}, {}, "-")
    /\ BankFrame

\* bank.keep_mask()
BankConfig_keep_mask_call ==
    /\ BankLive
    /\ last' = DoneBank("keep_mask", 0, "none", {}, keep_mask(banks[0]), "-")
    /\ UNCHANGED <<banks, hist>>
    /\ BankFrame

\* bank.status()
BankConfig_status_call ==
    /\ BankLive
    /\ last' = DoneBank("status", 0, "none", {}, {}, status(banks[0]))
    /\ UNCHANGED <<banks, hist>>
    /\ BankFrame

\* u8::from(bank.merge(current))
BankConfig_merge_call(current) ==
    /\ BankLive
    /\ last' = DoneBank("merge", 0, "none", current,
                        merge(banks[0], current), "-")
    /\ UNCHANGED <<banks, hist>>
    /\ BankFrame

NextBank ==
    \/ \E port_offset \in BankOffsets, cfg \in PortModes :
          BankConfig_set_port_call(port_offset, cfg)
    \/ BankConfig_keep_mask_call
    \/ BankConfig_status_call
    \/ \E current \in Bytes : BankConfig_merge_call(current)

SpecBank == InitBank /\ [][NextBank]_vars

\* ------------------------------------------- threads sharing one adapter
\* Threads call refresh, write_back and the pin operations of one
\* TransactionalIO.  A step is one atomic access of issued / cache / dirty /
\* fresh, or the entry into or the return from one IOMutex::lock call; the
\* bus transaction of a lock call is under way between its entry and its
\* return.  bus logs every transaction with the thread and the call that
\* made it.  A thread that panics stops; the others go on.
MtPins == {11, 19}

\* adapter states reached by port_pin and set_high / set_low calls
MtStartStates ==
    {[issued |-> {11, 19}, hi |-> {}, lo |-> {}],
     [issued |-> {11, 19}, hi |-> {11}, lo |-> {19}],
     [issued |-> 11..18, hi |-> {11, 12, 15, 18}, lo |-> {13, 14, 16, 17}]}

InitMT ==
    /\ usize_bits \in UsizeWidths
    /\ dev \in DevPatterns
    /\ \E s \in MtStartStates :
          /\ issued = s.issued
          /\ cache = s.hi
          /\ dirty = s.hi \cup s.lo
          /\ fresh = s.hi \cup s.lo
          /\ pend = [hi |-> s.hi, lo |-> s.lo]
    /\ sess = [refreshed |-> FALSE, norefresh |-> TRUE, iss |-> {},
               rd |-> {}, snap |-> {}, hi |-> {}, lo |-> {},
               dhi |-> {}, dlo |-> {}, any |-> FALSE]
    /\ fault = FALSE
    /\ last = [op |-> "new", by |-> 0, call |-> 0, res |-> "ok",
               val |-> FALSE]
    /\ bus = <<>>
    /\ locks = 0
    /\ steps = 0
    /\ CfgIdle
    /\ MtIdle
    /\ SpiIdle
    /\ pins = {}

\* what no step of a thread changes
MtFrame ==
    UNCHANGED <<usize_bits, issued, pend, sess, fault, cfgvars, pins, spivars>>

\* the same, the history of writes and refresh calls left out
MtFrameNoHist ==
    UNCHANGED <<usize_bits, issued, fault, cfgvars, pins, spivars>>

\* thread t may start a call
MtCanCall(t) == pc[t] = "idle" /\ steps < MaxThreadCalls

\* thread t moves to step p with locals l
Goto(t, p, l) ==
    /\ pc' = [pc EXCEPT ![t] = p]
    /\ loc' = [loc EXCEPT ![t] = l]

\* thread t returns from its call
Return(t, op, res, val) ==
    /\ pc' = [pc EXCEPT ![t] = IF res = "panic" THEN "panicked" ELSE "idle"]
    /\ loc' = [loc EXCEPT ![t] = NoLocals]
    /\ last' = [op |-> op, by |-> t, call |-> loc[t].call, res |-> res,
                val |-> val]

\* variant: the mutex lets a thread in while another is inside
IOMutex_lock_unguarded(holderv) == TRUE

\* IOMutex::lock can be entered: std::sync::Mutex::lock waits until free
IOMutex_lock(holderv) == holderv = 0

\* thread t enters self.expander.lock(..): the transaction is under way
LockEnter(t, p, l) ==
    /\ IOMutex_lock(holder)
    /\ holder' = t
    /\ locks' = locks + 1
    /\ Goto(t, p, l)

\* thread t returns from self.expander.lock(..) with transaction tx done
LockExit(t, tx) ==
    /\ holder' = 0
    /\ bus' = Append(bus, [rw |-> tx.rw, addr |-> tx.addr, val |-> tx.val,
                           ok |-> tx.ok, by |-> t, call |-> loc[t].call])

\* refresh, line 102: self.dirty.store(0)
Refresh_dirty_store(t) ==
    /\ MtCanCall(t)
    /\ dirty' = refresh_dirty(dirty)
    /\ steps' = steps + 1
    /\ Goto(t, "refresh_issued", [NoLocals EXCEPT !.call = steps + 1])
    /\ sess' = [sess EXCEPT !.norefresh = FALSE]
    /\ UNCHANGED <<cache, fresh, dev, last, bus, locks, holder, pend>>
    /\ MtFrameNoHist

\* refresh, lines 103-106: the buffers and self.issued.load() >> start_port
Refresh_issued_load(t) ==
    /\ pc[t] = "refresh_issued"
    /\ Goto(t, "refresh_loop",
            [loc[t] EXCEPT !.ports = Shr(issued, FirstPort),
                           !.start_port = FirstPort])
    /\ UNCHANGED <<cache, dirty, fresh, dev, last, bus, locks, holder, steps>>
    /\ MtFrame

\* refresh, lines 107-111: skip to the next issued port and enter the lock
Refresh_lock_enter(t) ==
    /\ pc[t] = "refresh_loop"
    /\ loc[t].ports # {}
    /\ LET skip == trailing_zeros(loc[t].ports)
       IN LockEnter(t, "refresh_in_lock",
                    [loc[t] EXCEPT !.ports = Shr(@, skip),
                                   !.start_port = @ + skip])
    /\ UNCHANGED <<cache, dirty, fresh, dev, last, bus, steps>>
    /\ MtFrame

\* refresh, lines 111-114: read_ports returns; ok = FALSE: it failed
Refresh_lock_exit(t, ok) ==
    /\ pc[t] = "refresh_in_lock"
    /\ LET tx == Expander_read_ports(loc[t].start_port)
           port_values == Device_read_register(dev, tx.addr)
           l == loc[t]
       IN IF ok
          THEN /\ LockExit(t, [tx EXCEPT !.val = port_values])
               /\ Goto(t, "refresh_loop",
                       [l EXCEPT
                          !.load_buffer = refresh_load(@, port_values,
                                              l.start_port, usize_bits),
                          !.fresh_buffer = refresh_fresh(@, l.start_port,
                                               usize_bits),
                          !.ports = refresh_consume(@)])
               /\ UNCHANGED last
          ELSE /\ LockExit(t, [tx EXCEPT !.ok = FALSE])
               /\ Return(t, "refresh", "err", FALSE)
    /\ UNCHANGED <<cache, dirty, fresh, dev, locks, steps>>
    /\ MtFrame

\* refresh, line 116: self.cache.store(load_buffer)
Refresh_cache_store(t) ==
    /\ pc[t] = "refresh_loop"
    /\ loc[t].ports = {}
    /\ cache' = loc[t].load_buffer
    /\ Goto(t, "refresh_fresh", loc[t])
    /\ UNCHANGED <<dirty, fresh, dev, last, bus, locks, holder, steps>>
    /\ MtFrame

\* refresh, lines 117-118: self.fresh.store(fresh_buffer); Ok(())
Refresh_fresh_store(t) ==
    /\ pc[t] = "refresh_fresh"
    /\ fresh' = loc[t].fresh_buffer
    /\ Return(t, "refresh", "ok", FALSE)
    /\ UNCHANGED <<cache, dirty, dev, bus, locks, holder, steps>>
    /\ MtFrame

\* write_back, lines 125-126: self.dirty.load()
WriteBack_dirty_load(t, strategy) ==
    /\ MtCanCall(t)
    /\ steps' = steps + 1
    /\ Goto(t, "write_back_ok_to_write",
            [NoLocals EXCEPT !.call = steps + 1, !.strategy = strategy,
                             !.ports = dirty])
    /\ UNCHANGED <<cache, dirty, fresh, dev, last, bus, locks, holder>>
    /\ MtFrame

\* write_back, lines 127-131: the match on strategy (fresh.load for
\* StompClean)
WriteBack_ok_to_write(t) ==
    /\ pc[t] = "write_back_ok_to_write"
    /\ Goto(t, "write_back_cache",
            [loc[t] EXCEPT !.ok_to_write =
                ok_to_write_for(loc[t].strategy, loc[t].ports, fresh)])
    /\ UNCHANGED <<cache, dirty, fresh, dev, last, bus, locks, holder, steps>>
    /\ MtFrame

\* write_back, line 132: self.cache.load()
WriteBack_cache_load(t) ==
    /\ pc[t] = "write_back_cache"
    /\ Goto(t, "write_back_loop", [loc[t] EXCEPT !.cache = cache])
    /\ UNCHANGED <<cache, dirty, fresh, dev, last, bus, locks, holder, steps>>
    /\ MtFrame

\* write_back, lines 133-141 / 146: skip to the next pending port and enter
\* the lock
WriteBack_lock_enter(t) ==
    /\ pc[t] = "write_back_loop"
    /\ loc[t].ports # {}
    /\ LET skip == trailing_zeros(loc[t].ports)
       IN LockEnter(t, "write_back_in_lock",
                    [loc[t] EXCEPT
                       !.ports = Shr(@, skip),
                       !.ok_to_write = ok_to_write_shifted(@, skip),
                       !.start_port = @ + skip])
    /\ UNCHANGED <<cache, dirty, fresh, dev, last, bus, steps>>
    /\ MtFrame

\* write_back, lines 138-148: write_ports or write_port returns; ok = FALSE:
\* it failed
WriteBack_lock_exit(t, ok) ==
    /\ pc[t] = "write_back_in_lock"
    /\ LET l == loc[t]
           batch == batch_ok(l.ok_to_write)
           tx == IF batch
                 THEN Expander_write_ports(l.start_port,
                          batch_values(l.cache, l.start_port))
                 ELSE Expander_write_port(l.start_port,
                          single_value(l.cache, l.start_port, usize_bits))
       IN IF ok
          THEN /\ LockExit(t, tx)
               /\ dev' = Device_write_register(dev, tx.addr, tx.val)
               /\ Goto(t, "write_back_loop",
                       [l EXCEPT !.ports = consume(@, batch)])
               /\ UNCHANGED last
          ELSE /\ LockExit(t, [tx EXCEPT !.ok = FALSE])
               /\ Return(t, "write_back", "err", FALSE)
               /\ UNCHANGED dev
    /\ UNCHANGED <<cache, dirty, fresh, locks, steps>>
    /\ MtFrame

\* write_back, lines 150-151: self.dirty.store(0); Ok(())
WriteBack_dirty_store(t) ==
    /\ pc[t] = "write_back_loop"
    /\ loc[t].ports = {}
    /\ dirty' = write_back_dirty("ok", dirty)
    /\ Return(t, "write_back", "ok", FALSE)
    /\ UNCHANGED <<cache, fresh, dev, bus, locks, holder, steps>>
    /\ MtFrame

\* write_port, lines 161-166: cache.fetch_or / fetch_and, from set_high or
\* set_low of a PortPin
WritePort_cache(t, port, bit) ==
    /\ MtCanCall(t)
    /\ port \in issued
    /\ LET or_bit == Bit(port, usize_bits)
       IN cache' = IF bit THEN cache \cup or_bit ELSE cache \ or_bit
    /\ steps' = steps + 1
    /\ Goto(t, "write_port_dirty",
            [NoLocals EXCEPT !.call = steps + 1, !.port = port,
                             !.bit = bit])
    /\ pend' = NoteWrite(pend, port, bit)
    /\ UNCHANGED <<dirty, fresh, dev, last, bus, locks, holder, sess>>
    /\ MtFrameNoHist

\* write_port, line 167: dirty.fetch_or(or_bit)
WritePort_dirty(t) ==
    /\ pc[t] = "write_port_dirty"
    /\ dirty' = dirty \cup Bit(loc[t].port, usize_bits)
    /\ Goto(t, "write_port_fresh", loc[t])
    /\ UNCHANGED <<cache, fresh, dev, last, bus, locks, holder, steps>>
    /\ MtFrame

\* write_port, line 168: fresh.fetch_or(or_bit)
WritePort_fresh(t) ==
    /\ pc[t] = "write_port_fresh"
    /\ fresh' = fresh \cup Bit(loc[t].port, usize_bits)
    /\ Return(t, IF loc[t].bit THEN "set_high" ELSE "set_low", "ok", FALSE)
    /\ UNCHANGED <<cache, dirty, dev, bus, locks, holder, steps>>
    /\ MtFrame

\* read_port, lines 171-173: fresh.load and the panic, from is_high or
\* is_low of a PortPin
ReadPort_fresh(t, port, negate) ==
    /\ MtCanCall(t)
    /\ port \in issued
    /\ steps' = steps + 1
    /\ IF (fresh \cap Bit(port, usize_bits)) = {}
       THEN /\ pc' = [pc EXCEPT ![t] = "panicked"]
            /\ loc' = [loc EXCEPT ![t] = NoLocals]
            /\ last' = [op |-> IF negate THEN "is_low" ELSE "is_high",
                        by |-> t, call |-> steps + 1, res |-> "panic",
                        val |-> FALSE]
       ELSE /\ Goto(t, "read_port_cache",
                    [NoLocals EXCEPT !.call = steps + 1, !.port = port,
                                     !.negate = negate])
            /\ UNCHANGED last
    /\ UNCHANGED <<cache, dirty, fresh, dev, bus, locks, holder>>
    /\ MtFrame

\* read_port, line 174: cache.load
ReadPort_cache(t) ==
    /\ pc[t] = "read_port_cache"
    /\ LET hi == (cache \cap Bit(loc[t].port, usize_bits)) # {}
       IN Return(t, IF loc[t].negate THEN "is_low" ELSE "is_high", "ok",
                 IF loc[t].negate THEN ~hi ELSE hi)
    /\ UNCHANGED <<cache, dirty, fresh, dev, bus, locks, holder, steps>>
    /\ MtFrame

NextMT ==
    \E t \in Threads :
        \/ Refresh_dirty_store(t)
        \/ Refresh_issued_load(t)
        \/ Refresh_lock_enter(t)
        \/ \E ok \in BOOLEAN : Refresh_lock_exit(t, ok)
        \/ Refresh_cache_store(t)
        \/ Refresh_fresh_store(t)
        \/ \E strategy \in Strategies : WriteBack_dirty_load(t, strategy)
        \/ WriteBack_ok_to_write(t)
        \/ WriteBack_cache_load(t)
        \/ WriteBack_lock_enter(t)
        \/ \E ok \in BOOLEAN : WriteBack_lock_exit(t, ok)
        \/ WriteBack_dirty_store(t)
        \/ \E port \in MtPins, bit \in BOOLEAN : WritePort_cache(t, port, bit)
        \/ WritePort_dirty(t)
        \/ WritePort_fresh(t)
        \/ \E port \in MtPins, negate \in BOOLEAN :
              ReadPort_fresh(t, port, negate)
        \/ ReadPort_cache(t)

SpecMT == InitMT /\ [][NextMT]_vars

\* ------------------------------------- the SPI interface as a state machine
\* registers the driver accesses: Configuration, a bank, a single port, a
\* port range
SpiRegs ==
    {[tag |-> "Configuration", n |-> 0], [tag |-> "BankConfig", n |-> 0],
     [tag |-> "SinglePort", n |-> 4], [tag |-> "PortRange", n |-> 31]}

\* values written, and low bytes the device shifts back
SpiValues == {0, 85, 255}

\* which of the calls an operation makes on the chip-select pin and the SPI
\* master fail, numbered in program order (a write makes 3, a read 6): none,
\* one of them, or the SPI call of a frame and the set_high after it
SpiFaults == {{}, {1}, {2}, {3}, {2, 3}, {4}, {5}, {6}, {5, 6}}

\* high bytes the device shifts back: that of the read command, the bare
\* address, zero
SpiEchoes(addr) == {addr + 128, addr, 0}

\* one call on the pin or the SPI master, as it appears on the wire
Ev(ev, frame, back, ok) ==
    [ev |-> ev, frame |-> frame, back |-> back, ok |-> ok]

\* variant: the address byte of a read goes out with its top bit clear
addr_word_plain(addr) == addr

\* 0x80 | u8::from(addr)
addr_word(addr) == IF (addr \div 128) % 2 = 1 THEN addr ELSE addr + 128

\* variant: an SPI error is returned before chip select is released
select_and_send_early(st, F, k, ev, frame, back) ==
    IF k \in F
    THEN [st EXCEPT !.wire = Append(@, Ev("set_low", <<>>, <<>>, FALSE)),
                    !.res = "CSError"]
    ELSE LET sent == Append(Append(st.wire, Ev("set_low", <<>>, <<>>, TRUE)),
                            Ev(ev, frame, IF k + 1 \in F THEN <<>> ELSE back,
                               k + 1 \notin F))
         IN IF k + 1 \in F
            THEN [st EXCEPT !.cs = "low", !.wire = sent,
                            !.res = IF ev = "write" THEN "WriteError"
                                    ELSE "TransferError"]
            ELSE IF k + 2 \in F
            THEN [st EXCEPT !.cs = "low",
                       !.wire = Append(sent, Ev("set_high", <<>>, <<>>, FALSE)),
                       !.res = "CSError"]
            ELSE [st EXCEPT !.cs = "high",
                       !.wire = Append(sent, Ev("set_high", <<>>, <<>>, TRUE)),
                       !.res = "ok"]

\* cs.set_low()?, the SPI call, cs.set_high()?, then the SPI call's result:
\* the calls numbered k, k + 1 and k + 2 of the operation
select_and_send(st, F, k, ev, frame, back) ==
    IF k \in F
    THEN [st EXCEPT !.wire = Append(@, Ev("set_low", <<>>, <<>>, FALSE)),
                    !.res = "CSError"]
    ELSE LET sent == Append(Append(st.wire, Ev("set_low", <<>>, <<>>, TRUE)),
                            Ev(ev, frame, IF k + 1 \in F THEN <<>> ELSE back,
                               k + 1 \notin F))
         IN IF k + 2 \in F
            THEN [st EXCEPT !.cs = "low",
                       !.wire = Append(sent, Ev("set_high", <<>>, <<>>, FALSE)),
                       !.res = "CSError"]
            ELSE [st EXCEPT !.cs = "high",
                       !.wire = Append(sent, Ev("set_high", <<>>, <<>>, TRUE)),
                       !.res = IF k + 1 \notin F THEN "ok"
                               ELSE IF ev = "write" THEN "WriteError"
                               ELSE "TransferError"]

\* SpiInterface::write_register with chip select at level csv
SpiInterface_write_register(csv, addr, value, F) ==
    select_and_send([cs |-> csv, wire |-> <<>>, res |-> "ok", val |-> 0],
                    F, 1, "write", <<addr, value>>, <<>>)

\* SpiInterface::read_register; back is the frame the device shifts out
\* during the transfer
SpiInterface_read_register(csv, addr, F, back) ==
    LET s1 == select_and_send([cs |-> csv, wire |-> <<>>, res |-> "ok",
                               val |-> 0],
                              F, 1, "write", <<addr_word(addr), 0>>, <<>>)
        s2 == select_and_send(s1, F, 4, "transfer",
                              <<RegisterAddress([tag |-> "Noop", n |-> 0]),
                                0>>, back)
    IN IF s1.res # "ok" THEN s1
       ELSE IF s2.res # "ok" THEN s2
       ELSE IF back[1] # addr_word(addr)
       THEN [s2 EXCEPT !.res = "AddressError"]
       ELSE [s2 EXCEPT !.val = back[2]]

DoneSpi(op, addr, value, F, back, before, r) ==
    [op |-> op, addr |-> addr, value |-> value, faults |-> F, back |-> back,
     before |-> before, res |-> r.res, val |-> r.val]

\* SpiInterface::new does not drive the pin: chip select is at either level
InitSpi ==
    /\ TioIdle
    /\ CfgIdle
    /\ MtIdle
    /\ dev = {}
    /\ pins = {}
    /\ fault = FALSE
    /\ bus = <<>>
    /\ locks = 0
    /\ steps = 0
    /\ cs \in {"high", "low"}
    /\ wire = <<>>
    /\ last = DoneSpi("new", 0, 0, {}, <<>>, cs,
                      [res |-> "ok", val |-> 0])

\* what the SPI interface leaves alone
SpiFrame ==
    UNCHANGED <<tiovars, cfgvars, mtvars, dev, pins, fault, bus, locks, steps>>

\* a call of write_register
SpiInterface_write_register_call(reg, value, F) ==
    LET addr == RegisterAddress(reg)
        r == SpiInterface_write_register(cs, addr, value, F)
    IN /\ cs' = r.cs
       /\ wire' = r.wire
       /\ last' = DoneSpi("write_register", addr, value, F, <<>>, cs, r)
       /\ SpiFrame

\* a call of read_register
SpiInterface_read_register_call(reg, F, back) ==
    LET addr == RegisterAddress(reg)
        r == SpiInterface_read_register(cs, addr, F, back)
    IN /\ cs' = r.cs
       /\ wire' = r.wire
       /\ last' = DoneSpi("read_register", addr, 0, F, back, cs, r)
       /\ SpiFrame

NextSpi ==
    \/ \E reg \in SpiRegs, value \in SpiValues,
          F \in {G \in SpiFaults : G \subseteq 1..3} :
          SpiInterface_write_register_call(reg, value, F)
    \/ \E reg \in SpiRegs, F \in SpiFaults :
          \E hi \in SpiEchoes(RegisterAddress(reg)), lo \in SpiValues :
             SpiInterface_read_register_call(reg, F, <<hi, lo>>)

SpecSpi == InitSpi /\ [][NextSpi]_vars

\* ------------------------------------------------------- claim vocabulary
\* indices of the transactions of txs that touch port p
Covering(txs, p) == {i \in 1..Len(txs) : p \in PortsAt(txs[i].addr)}

\* the level a write transaction carries for port p
TxBit(tx, p) == OffsetAt(tx.addr, p) \in tx.val

\* the eight bit positions an 8-port register at addr spans
Window(addr) == {(addr - PortRangeBase) + k : k \in 0..7}

HasBatch(txs) == \E i \in 1..Len(txs) : IsRange(txs[i].addr)

HasSingle(txs) == \E i \in 1..Len(txs) : ~IsRange(txs[i].addr)

\* the transactions write every port of hi \cup lo exactly once, high for hi
\* and low for lo, and touch no other port
WritesExactly(txs, hi, lo) ==
    /\ \A p \in hi \cup lo :
          /\ Cardinality(Covering(txs, p)) = 1
          /\ \A i \in Covering(txs, p) : TxBit(txs[i], p) = (p \in hi)
    /\ \A i \in 1..Len(txs) :
          /\ txs[i].rw = "w"
          /\ PortsAt(txs[i].addr) \subseteq hi \cup lo

\* ------------------------------------------------------------------ claims
\* C1: a write_back(Exact) that returns Ok writes every port with a pending
\* user write exactly once on the bus, with the bit the user last wrote to
\* it, and touches no other port, by a single-port write or inside a batch.
C1_ExactWritesPendingOnce ==
    [][(last'.op = "write_back" /\ last'.strategy = "Exact"
            /\ last'.res = "ok")
        => WritesExactly(bus', pend.hi, pend.lo)]_vars

C1_Witness ==
    /\ last.op = "write_back" /\ last.strategy = "Exact" /\ last.res = "ok"
    /\ HasBatch(bus)
    /\ Len(bus) = 1
    /\ bus[1].val \notin {{}, Mask_FF}

\* C2: after a refresh, write_back(StompClean) never blind-writes: every port
\* a transaction of it touches has its fresh bit set when write_back starts,
\* and every batch spans eight positions that are all set in fresh.
C2_StompCleanNeverBlind ==
    [][(last'.op = "write_back" /\ last'.strategy = "StompClean"
            /\ sess.refreshed)
        => \A i \in 1..Len(bus') :
              /\ PortsAt(bus'[i].addr) \subseteq fresh
              /\ IsRange(bus'[i].addr) => Window(bus'[i].addr) \subseteq fresh]_vars

C2_Witness ==
    /\ last.op = "write_back" /\ last.strategy = "StompClean"
    /\ last.res = "ok"
    /\ sess.refreshed
    /\ \E i \in 1..Len(bus) :
          /\ IsRange(bus[i].addr)
          /\ \E p \in PortsAt(bus[i].addr) : p \notin sess.hi \cup sess.lo

\* C3: pins issued, refresh Ok, those pins written, write_back(StompClean)
\* Ok, no StompAny flush in between: every port of the device then holds the
\* user's last written bit if it was written and the level it had at the
\* refresh otherwise, and the flush touched only ports the refresh had read.
C3_StompCleanPreserves ==
    (/\ last.op = "write_back" /\ last.strategy = "StompClean"
     /\ last.res = "ok"
     /\ sess.refreshed /\ ~sess.any
     /\ (sess.hi \cup sess.lo) \subseteq sess.iss)
    => /\ \A p \in Ports :
            (p \in dev) = (IF p \in sess.hi THEN TRUE
                           ELSE IF p \in sess.lo THEN FALSE
                           ELSE p \in sess.snap)
       /\ \A i \in 1..Len(bus) : PortsAt(bus[i].addr) \subseteq sess.rd

C3_Witness ==
    /\ last.op = "write_back" /\ last.strategy = "StompClean"
    /\ last.res = "ok"
    /\ sess.refreshed /\ ~sess.any
    /\ (sess.hi \cup sess.lo) \subseteq sess.iss
    /\ HasBatch(bus)
    /\ \E p \in sess.hi \cup sess.lo : (p \in sess.hi) # (p \in sess.snap)
    /\ \E i \in 1..Len(bus) :
          \E q \in PortsAt(bus[i].addr) \cap sess.snap :
              q \notin sess.hi \cup sess.lo

\* C4 as stated: after write_back(StompAny) returns Ok every port with a
\* pending user write holds the user's last bit on the device, and, when the
\* latest refresh succeeded, each of those ports had been read by it.
C4_StompAnyAsStated ==
    [][(last'.op = "write_back" /\ last'.strategy = "StompAny"
            /\ last'.res = "ok")
        => /\ \A p \in pend.hi : p \in dev'
           /\ \A p \in pend.lo : p \notin dev'
           /\ sess.refreshed => (pend.hi \cup pend.lo) \subseteq sess.rd]_vars

\* C4 amended: after write_back(StompAny) returns Ok every port with a
\* pending user write holds the user's last bit on the device, and, when the
\* latest refresh succeeded, each of those ports whose pin had been issued
\* before that refresh had been read by it.
C4_StompAnyFlushesUserBits ==
    [][(last'.op = "write_back" /\ last'.strategy = "StompAny"
            /\ last'.res = "ok")
        => /\ \A p \in pend.hi : p \in dev'
           /\ \A p \in pend.lo : p \notin dev'
           /\ sess.refreshed
                => ((pend.hi \cup pend.lo) \cap sess.iss) \subseteq sess.rd]_vars

C4_Witness ==
    /\ last.op = "write_back" /\ last.strategy = "StompAny"
    /\ last.res = "ok"
    /\ sess.refreshed
    /\ HasBatch(bus)
    /\ \E p \in sess.hi \cap sess.iss : p \in dev /\ p \notin sess.snap

C6_ReadAfterRefresh ==
    (/\ last.op = "is_high"
     /\ sess.refreshed
     /\ last.port \in sess.iss
     /\ last.port \notin sess.hi \cup sess.lo)
    => /\ last.res = "ok"
       /\ last.val = (last.port \in sess.snap)
       /\ bus = <<>>

C6_Witness ==
    /\ last.op = "is_high" /\ last.res = "ok" /\ last.val
    /\ sess.refreshed
    /\ last.port = 14 /\ {11, 14} \subseteq sess.iss
    /\ last.port \notin sess.hi \cup sess.lo

\* C7: a pin read panics exactly when the fresh bit of its port is clear, in
\* particular when the port was neither written nor refreshed since
\* construction; otherwise it returns the cache bit of the port.
C7_ReadFaultsIffNotFresh ==
    (last.op \in {"is_high", "is_low"})
    => /\ (last.res = "panic") <=> (last.port \notin fresh)
       /\ (sess.norefresh /\ last.port \notin sess.hi \cup sess.lo)
            => last.res = "panic"
       /\ last.res = "ok"
            => last.val = ((last.port \in cache) = (last.op = "is_high"))

C7_Witness ==
    /\ last.op = "is_high" /\ last.res = "panic"
    /\ sess.norefresh
    /\ last.port \in issued
    /\ last.port \notin sess.hi \cup sess.lo

\* C8: a port written by set_high / set_low since the latest refresh reads
\* back the written bit without a panic, whether or not it was ever
\* refreshed and whatever write_back calls came in between.
C8_ReadYourWrites ==
    /\ \A p \in sess.hi \cup sess.lo :
          read_port(p) = (IF p \in sess.hi THEN "high" ELSE "low")
    /\ (last.op \in {"is_high", "is_low"}
            /\ last.port \in sess.hi \cup sess.lo)
        => /\ last.res = "ok"
           /\ last.val = ((last.port \in sess.hi) = (last.op = "is_high"))

C8_Witness ==
    /\ last.op = "is_high" /\ last.res = "ok" /\ last.val
    /\ last.port \in sess.hi
    /\ last.port \notin pend.hi
    /\ last.port \in dev /\ last.port \notin sess.snap
    /\ sess.norefresh

IsRead(op) == op \in {"is_high", "is_low"}

\* C9: right after a successful refresh a write_back under any strategy
\* issues no bus transaction, and a read of a pin issued before the refresh
\* returns the level the refresh read from the device, not a bit written
\* before the refresh.
C9_RefreshDiscardsWrites ==
    [][(last.op = "refresh" /\ last.res = "ok")
        => /\ last'.op = "write_back"
                => bus' = <<>> /\ last'.res = "ok" /\ dev' = dev
           /\ (IsRead(last'.op) /\ last'.port \in sess.iss)
                => /\ last'.res = "ok"
                   /\ last'.val = ((last'.port \in sess.snap)
                                     = (last'.op = "is_high"))]_vars

C9_Witness ==
    /\ last.op = "is_high" /\ last.res = "ok" /\ ~last.val
    /\ sess.refreshed
    /\ last.port \in sess.dhi
    /\ sess.hi \cup sess.lo = {}
    /\ dirty = {}

\* C10: port_pin, set_high, set_low, is_high and is_low of the transactional
\* adapter take no lock, make no bus transaction and leave the device as it
\* is; refresh and write_back make each bus transaction under one lock call.
C10_PinOpsOffBus ==
    [][/\ last'.op \in {"port_pin", "set_high", "set_low", "is_high", "is_low"}
            => bus' = <<>> /\ locks' = 0 /\ dev' = dev
       /\ last'.op \in {"refresh", "write_back"} => locks' = Len(bus')]_vars

C10_Witness ==
    /\ last.op = "set_high" /\ last.res = "ok"
    /\ last.port \in dirty
    /\ last.port \in cache
    /\ last.port \notin dev
    /\ bus = <<>> /\ locks = 0

\* --------------------------------------------- configurator claim vocabulary
\* the four pins of bank b
BankPins(b) == {4 * (b + 1) + k : k \in 0..3}

\* the bank-register traffic a pin set S calls for, from bank b upwards
RECURSIVE ExpectedBankTraffic(_, _)
ExpectedBankTraffic(b, S) ==
    IF b > 6 THEN <<>>
    ELSE LET k == Cardinality(S \cap BankPins(b))
         IN (CASE k = 0 -> <<>>
               [] k = 4 -> << <<"w", 9 + b>> >>
               [] OTHER -> << <<"r", 9 + b>>, <<"w", 9 + b>> >>)
            \o ExpectedBankTraffic(b + 1, S)

\* direction and address of each transaction of txs
Shape(txs) == [i \in 1..Len(txs) |-> <<txs[i].rw, txs[i].addr>>]

\* the two mode bits of pin p in the byte of its bank
FieldOf(byte, p) ==
    {b - 2 * (p % 4) : b \in byte \cap {2 * (p % 4), 2 * (p % 4) + 1}}

\* the two mode bits of pin p in the register file regsv
ModeBits(regsv, p) == FieldOf(regsv[9 + (p \div 4) - 1], p)

\* the two mode bits the device takes for a mode
BitsOfMode(mode) ==
    CASE mode = "Output" -> {0}
      [] mode = "InputFloating" -> {1}
      [] mode = "InputPullup" -> {0, 1}
      [] OTHER -> {}

\* shutdown() or detect_transitions() was called on the configurator
GlobalSet == hist.sd \/ hist.td

\* C11: configure().ports(S, m).commit() issues, bank by bank in ascending
\* order, nothing for a bank with no pin in S, one write and no read for a
\* bank with all four pins in S, one read then one write of the bank's
\* register for a bank with one to three pins in S, and nothing else; a bus
\* error cuts this sequence short at the failing transaction.
C11_PortsCommitTraffic ==
    (last.op = "commit" /\ hist.shape = "ports")
    => LET e == ExpectedBankTraffic(0, hist.S)
       IN IF last.res = "ok" THEN Shape(bus) = e
          ELSE /\ bus # <<>>
               /\ ~bus[Len(bus)].ok
               /\ Len(bus) <= Len(e)
               /\ Shape(bus) = SubSeq(e, 1, Len(bus))

C11_Witness ==
    /\ last.op = "commit" /\ last.res = "ok"
    /\ hist.shape = "ports"
    /\ hist.S = 6..13
    /\ Shape(bus) = << <<"r", 9>>, <<"w", 9>>, <<"w", 10>>, <<"r", 11>>,
                       <<"w", 11>> >>

\* C12: commit writes the Configuration register (0x04) once, as its last
\* transaction, when shutdown() or detect_transitions() was called on the
\* configurator, and never otherwise; everything before it is bank-register
\* traffic; a commit after no setter call issues no read and no write.
C12_ConfigWrittenIffDirty ==
    (last.op = "commit")
    => /\ \A i \in 1..Len(bus) :
            IF bus[i].addr = 4
            THEN i = Len(bus) /\ bus[i].rw = "w" /\ GlobalSet
            ELSE bus[i].addr \in 9..15
       /\ (last.res = "ok" /\ GlobalSet)
            => bus # <<>> /\ bus[Len(bus)].addr = 4
       /\ hist.shape = "empty" => bus = <<>> /\ last.res = "ok"

C12_Witness ==
    /\ last.op = "commit" /\ last.res = "ok"
    /\ hist.sd
    /\ Len(bus) = 3
    /\ bus[1].rw = "r"
    /\ bus[3].addr = 4

C14_LastNamedModeWins ==
    /\ (building /\ ~fault)
        => \A p \in Ports :
              FieldOf(banks[(p \div 4) - 1], p) = BitsOfMode(hist.named[p])
    /\ (last.op = "commit" /\ last.res = "ok")
        => \A p \in Ports :
              ModeBits(regs, p) = IF hist.named[p] = "none"
                                  THEN ModeBits(hist.pre, p)
                                  ELSE BitsOfMode(hist.named[p])

C14_Witness ==
    /\ last.op = "commit" /\ last.res = "ok"
    /\ hist.over
    /\ hist.named[4] = "InputFloating"
    /\ hist.named[5] = "Output"
    /\ hist.named[7] = "none"
    /\ ModeBits(regs, 7) = {0}

\* ------------------------------------------- port operation claim vocabulary
\* a register identifier the device has
ValidReg(reg) ==
    \/ reg.tag \in {"Noop", "Configuration", "TransitionDetectMask"}
    \/ reg.tag = "BankConfig" /\ reg.n \in 0..6
    \/ reg.tag \in {"SinglePort", "PortRange"} /\ reg.n \in 4..31

\* the address table of the device
TableAddress(reg) ==
    CASE reg.tag = "Noop" -> 0
      [] reg.tag = "Configuration" -> 4
      [] reg.tag = "TransitionDetectMask" -> 6
      [] reg.tag = "BankConfig" -> 9 + reg.n
      [] reg.tag = "SinglePort" -> 32 + reg.n
      [] reg.tag = "PortRange" -> 64 + reg.n

PinOps == {"set_high", "set_low", "is_high", "is_low"}

C16_ImmediateOneTransaction ==
    (last.op \in PinOps)
    => /\ locks = 1
       /\ Shape(bus) = << <<IF last.op \in {"set_high", "set_low"}
                            THEN "w" ELSE "r", 32 + last.port>> >>
       /\ last.res = "ok"
            => /\ last.op = "set_high" => last.port \in dev
               /\ last.op = "set_low" => last.port \notin dev
               /\ last.op = "is_high" => last.val = (last.port \in dev)
               /\ last.op = "is_low" => last.val = (last.port \notin dev)

C16_Witness ==
    /\ last.op = "is_high" /\ last.res = "ok" /\ last.val
    /\ last.port = 12
    /\ steps >= 3

\* C17: a transport error during a pin read or write on the immediate
\* adapter comes back from the pin operation as an error value and does
\* not abort the program.
C17_ImmediateErrorReturned ==
    (last.op \in PinOps /\ bus # <<>> /\ ~bus[1].ok)
    => last.res = "err" /\ ~fault

\* C18: Expander::read_port(p) makes one read of register 0x20+p and returns
\* true exactly when bit 0 of the byte read is 1, whatever byte the
\* transport answers with.
C18_ReadPortLowBit ==
    (last.op = "read_port" /\ last.res = "ok")
    => /\ Shape(bus) = << <<"r", 32 + last.port>> >>
       /\ last.val = (0 \in last.byte)

\* C19: read_ports(s) makes exactly one read of register 0x40+s and returns
\* a byte whose bit k is the level of port s+k where s+k <= 31 and is 0
\* where s+k > 31; write_ports(s, bits) makes exactly one write of 0x40+s
\* carrying bits, after which port s+k holds bit k for every s+k <= 31.
C19_PortRangeOps ==
    /\ (last.op \in {"read_ports", "write_ports"} /\ last.res # "panic")
        => Shape(bus) = << <<IF last.op = "read_ports" THEN "r" ELSE "w",
                             64 + last.port>> >>
    /\ (last.op = "read_ports" /\ last.res = "ok")
        => \A k \in 0..7 :
              (k \in last.byte)
                 = (last.port + k <= 31 /\ (last.port + k) \in dev)
    /\ (last.op = "write_ports" /\ last.res = "ok")
        => /\ bus[1].val = last.byte
           /\ \A k \in 0..7 :
                 last.port + k <= 31
                    => ((last.port + k) \in dev) = (k \in last.byte)

C19_Witness ==
    /\ last.op = "read_ports" /\ last.res = "ok"
    /\ last.port = 28
    /\ last.byte = 0..3

\* a failed transaction ends txs and every one before it succeeded
StopsAtFirstFailure(txs) ==
    /\ txs # <<>>
    /\ ~txs[Len(txs)].ok
    /\ \A i \in 1..(Len(txs) - 1) : txs[i].ok

\* C20 as stated: a refresh that returns a bus error stops at the first
\* failing read and leaves dirty, fresh and cache as they were before the
\* call.
C20_RefreshErrorAsStated ==
    [][(last'.op = "refresh" /\ last'.res = "err")
        => /\ StopsAtFirstFailure(bus')
           /\ dirty' = dirty
           /\ fresh' = fresh
           /\ cache' = cache]_vars

\* C20 amended: a refresh that returns a bus error stops at the first
\* failing read and leaves fresh and cache as they were before the call,
\* while dirty is already cleared: the pending writes are discarded.
C20_RefreshErrorKeepsCache ==
    [][(last'.op = "refresh" /\ last'.res = "err")
        => /\ StopsAtFirstFailure(bus')
           /\ \A i \in 1..Len(bus') : bus'[i].rw = "r"
           /\ dirty' = {}
           /\ fresh' = fresh
           /\ cache' = cache
           /\ dev' = dev]_vars

C20_Witness ==
    /\ last.op = "refresh" /\ last.res = "err"
    /\ Len(bus) = 2
    /\ sess.dhi # {}
    /\ dirty = {}
    /\ sess.dhi \subseteq cache
    /\ sess.dhi \subseteq fresh

\* the first n transactions of txs, each as it is when it succeeds
Attempted(txs, n) == [i \in 1..n |-> [txs[i] EXCEPT !.ok = TRUE]]

\* C21: a write_back that returns a bus error stops at the first failing
\* write and leaves dirty, fresh and cache as they were before the call; a
\* write_back of the same strategy called next issues again, from the
\* start, the writes that had succeeded and the one that had failed.
C21_WriteBackErrorKeepsDirty ==
    [][/\ (last'.op = "write_back" /\ last'.res = "err")
            => /\ StopsAtFirstFailure(bus')
               /\ \A i \in 1..Len(bus') : bus'[i].rw = "w"
               /\ dirty' = dirty
               /\ fresh' = fresh
               /\ cache' = cache
       /\ (last.op = "write_back" /\ last.res = "err"
            /\ last'.op = "write_back" /\ last'.strategy = last.strategy)
            => LET n == IF Len(bus') < Len(bus) THEN Len(bus') ELSE Len(bus)
               IN /\ Attempted(bus', n) = Attempted(bus, n)
                  /\ last'.res = "ok" => Len(bus') >= Len(bus)]_vars

C21_Witness ==
    /\ last.op = "write_back" /\ last.res = "err"
    /\ Len(bus) = 2
    /\ bus[1].ok /\ ~IsRange(bus[1].addr)
    /\ PortsAt(bus[1].addr) \subseteq dirty
    /\ PortsAt(bus[1].addr) \subseteq pend.hi \cap dev
    /\ PortsAt(bus[1].addr) \cap sess.snap = {}

\* the ports of the 8-port windows [s, s+7] that the reads of txs address
Windows(txs) == UNION {Window(txs[i].addr) \cap Ports : i \in 1..Len(txs)}

\* C23: after a refresh that returns Ok, dirty is 0, fresh is exactly the
\* union of the 8-port windows the refresh read, and cache holds the levels
\* read in those windows and 0 elsewhere.
C23_RefreshOkState ==
    [][(last'.op = "refresh" /\ last'.res = "ok")
        => /\ dirty' = {}
           /\ fresh' = Windows(bus')
           /\ cache' = dev \cap Windows(bus')]_vars

\* C24: after a write_back that returns Ok, under any strategy, dirty is 0
\* and fresh, cache and issued are as before the call; a write_back called
\* right after it issues no bus transaction.
C24_WriteBackOkState ==
    [][/\ (last'.op = "write_back" /\ last'.res = "ok")
            => /\ dirty' = {}
               /\ fresh' = fresh
               /\ cache' = cache
               /\ issued' = issued
       /\ (last.op = "write_back" /\ last.res = "ok"
            /\ last'.op = "write_back")
            => bus' = <<>> /\ locks' = 0 /\ last'.res = "ok" /\ dev' = dev]_vars

C24_Witness ==
    /\ last.op = "write_back" /\ last.res = "ok"
    /\ bus = <<>>
    /\ sess.norefresh
    /\ sess.hi # {} /\ sess.lo # {}
    /\ sess.hi \subseteq dev
    /\ sess.lo \cap dev = {}
    /\ sess.lo \cap sess.snap # {}
    /\ dirty = {}
    /\ sess.hi \subseteq fresh \cap cache

\* C25: in every reachable state of the transactional adapter the words
\* issued, cache, dirty and fresh have bits set only at positions 4..31.
C25_MaskBitsArePorts ==
    /\ issued \subseteq Ports
    /\ cache \subseteq Ports
    /\ dirty \subseteq Ports
    /\ fresh \subseteq Ports

\* C26: issued only grows.  port_pin(p) for a port of 4..31 sets bit p of
\* issued and changes nothing else, so issuing a port again changes
\* nothing; port_pin for any other number panics and changes nothing; no
\* other operation, dropping a PortPin included, changes issued.
C26_IssuedOnlyGrows ==
    [][/\ issued \subseteq issued'
       /\ last'.op # "port_pin" => issued' = issued
       /\ last'.op = "port_pin"
            => /\ last'.res = IF last'.port \in Ports THEN "ok" ELSE "panic"
               /\ issued' = issued \cup ({last'.port} \cap Ports)
               /\ cache' = cache /\ dirty' = dirty /\ fresh' = fresh
               /\ bus' = <<>> /\ locks' = 0 /\ dev' = dev
               /\ fault' = (last'.port \notin Ports)]_vars

C26_Witness ==
    /\ last.op = "port_pin" /\ last.res = "ok"
    /\ last.port \in dirty
    /\ Cardinality(issued) > 1
    /\ sess.refreshed

\* start ports of the 8-port windows a transaction sequence addresses
StartOf(tx) == tx.addr - PortRangeBase

\* every start of an 8-port window that holds at least one port
WindowStarts == (FirstPort - 7)..LastPort

\* n windows of eight consecutive ports can cover the set S
RECURSIVE CoverableWith(_, _)
CoverableWith(S, n) ==
    IF S = {} THEN TRUE
    ELSE IF n = 0 THEN FALSE
    ELSE \E s \in WindowStarts : CoverableWith(S \ (s..(s + 7)), n - 1)

\* C27: a refresh that returns Ok (it leaves issued as it is) has read
\* 8-port windows that each start at an issued port, are pairwise disjoint
\* and in ascending order, hold every issued port in exactly one window,
\* and are as few as any windows of eight ports covering the issued ports
\* can be (none when none is issued).
C27_RefreshMinimalWindows ==
    (last.op = "refresh" /\ last.res = "ok")
        => /\ \A i \in 1..Len(bus) :
                 /\ bus[i].rw = "r" /\ IsRange(bus[i].addr)
                 /\ StartOf(bus[i]) \in issued
           /\ \A i, j \in 1..Len(bus) :
                 i < j => StartOf(bus[i]) + 8 <= StartOf(bus[j])
           /\ \A p \in issued :
                 Cardinality({i \in 1..Len(bus) :
                                p \in Window(bus[i].addr)}) = 1
           /\ CoverableWith(issued, Len(bus))
           /\ Len(bus) > 0 => ~CoverableWith(issued, Len(bus) - 1)

C27_Witness ==
    /\ last.op = "refresh" /\ last.res = "ok"
    /\ Len(bus) = 3
    /\ Cardinality(issued) > 8
    /\ \E p \in issued : \A i \in 1..Len(bus) : StartOf(bus[i]) # p
    /\ StartOf(bus[2]) > StartOf(bus[1]) + 8

\* first port a write transaction addresses
FirstPortOf(tx) == tx.addr - (IF IsRange(tx.addr) THEN PortRangeBase ELSE SinglePortBase)

\* the port numbers a write transaction spans: eight for a batch, else one
SpanOf(tx) ==
    IF IsRange(tx.addr) THEN Window(tx.addr) ELSE {FirstPortOf(tx)}

\* C28: the bus writes of one write_back, under any strategy, come in
\* strictly ascending order of start port and the port ranges they span
\* do not overlap: no port is written twice in one write_back.
C28_WriteBackAscending ==
    last.op = "write_back"
        => /\ \A i \in 1..Len(bus) : bus[i].rw = "w"
           /\ \A i, j \in 1..Len(bus) :
                 i < j => /\ FirstPortOf(bus[i]) < FirstPortOf(bus[j])
                          /\ SpanOf(bus[i]) \cap SpanOf(bus[j]) = {}
           /\ \A p \in Ports : Cardinality(Covering(bus, p)) <= 1

C28_Witness ==
    /\ last.op = "write_back" /\ last.res = "ok"
    /\ Len(bus) = 2
    /\ IsRange(bus[1].addr) /\ ~IsRange(bus[2].addr)
    /\ FirstPortOf(bus[2]) > FirstPortOf(bus[1]) + 7

\* the mask of ports a strategy permits, by bit position
PermittedBy(strategy, dirtyv, freshv) ==
    CASE strategy = "Exact" -> dirtyv
      [] strategy = "StompClean" -> freshv
      [] strategy = "StompAny" -> 2..31

Lowest(S) == CHOOSE p \in S : \A q \in S : p <= q

\* the writes C29 describes: from the lowest pending port p, a batch write
\* of cache bits p..p+7 when all of p..p+7 are permitted, else a single
\* write of cache bit p
RECURSIVE StepwiseWrites(_, _, _)
StepwiseWrites(work, permitted, cachev) ==
    IF work = {} THEN <<>>
    ELSE LET p == Lowest(work)
         IN IF (p..(p + 7)) \subseteq permitted
            THEN <<[rw |-> "w", addr |-> PortRangeBase + p,
                    val |-> {k \in 0..7 : p + k \in cachev}, ok |-> TRUE]>>
                 \o StepwiseWrites(work \ (p..(p + 7)), permitted, cachev)
            ELSE <<[rw |-> "w", addr |-> SinglePortBase + p,
                    val |-> IF p \in cachev THEN {0} ELSE {}, ok |-> TRUE]>>
                 \o StepwiseWrites(work \ {p}, permitted, cachev)

\* C29: write_back takes the lowest pending dirty port p at each step: one
\* batch write to 0x40+p of cache bits p..p+7 when the strategy permits
\* all of p..p+7, else one single write to 0x20+p of cache bit p.  Pins
\* 11..18 written high then Exact: one batch write 0x4B = 0xFF.  Pin 14
\* refreshed, pin 12 written, then StompClean: one single write at 0x2C.
C29_WriteBackSteps ==
    [][last'.op = "write_back"
        => LET c == StepwiseWrites(dirty,
                        PermittedBy(last'.strategy, dirty, fresh), cache)
               n == Len(bus')
           IN /\ n <= Len(c)
              /\ Attempted(bus', n) = SubSeq(c, 1, n)
              /\ last'.res = "ok" => n = Len(c)
              /\ (last'.strategy = "Exact" /\ last'.res = "ok"
                    /\ dirty = 11..18 /\ (11..18) \subseteq cache)
                    => bus' = <<[rw |-> "w", addr |-> 75, val |-> 0..7,
                                 ok |-> TRUE]>>
              /\ (last'.strategy = "StompClean" /\ last'.res = "ok"
                    /\ dirty = {12} /\ fresh = {12} \cup (14..21))
                    => /\ Len(bus') = 1
                       /\ bus'[1].addr = 44]_vars

C29_Witness ==
    /\ last.op = "write_back" /\ last.strategy = "StompClean"
    /\ last.res = "ok"
    /\ sess.refreshed /\ sess.rd = 14..21
    /\ sess.hi \cup sess.lo = {12}
    /\ Len(bus) = 1 /\ bus[1].addr = 44
    /\ fresh = {12} \cup (14..21)

\* the offsets set_port was called with on the bank being built
Touched == {k \in BankOffsets : hist.named[FirstPort + k] # "none"}

\* the two bits of the field of offset k
FieldBits(k) == {2 * k, 2 * k + 1}

\* C30: for a BankConfig built by set_port calls on the offsets P and any
\* current byte V, merge(V) keeps V's field at every offset outside P and
\* carries the encoding of the mode asked for (never 00) at every offset
\* of P; keep_mask is exactly the fields outside P; status is Unchanged iff
\* P is empty, Overwrite iff P is all four offsets, ReadModify otherwise.
C30_BankMerge ==
    /\ last.op = "merge"
        => \A k \in BankOffsets :
              IF k \in Touched
              THEN /\ FieldOf(last.out, k)
                        = BitsOfMode(hist.named[FirstPort + k])
                   /\ FieldOf(last.out, k) # {}
              ELSE FieldOf(last.out, k) = FieldOf(last.current, k)
    /\ last.op = "keep_mask"
        => last.out = UNION {FieldBits(k) : k \in BankOffsets \ Touched}
    /\ last.op = "status"
        => /\ (last.st = "Unchanged") = (Touched = {})
           /\ (last.st = "Overwrite") = (Touched = BankOffsets)
           /\ (last.st = "ReadModify")
                 = (Touched # {} /\ Touched # BankOffsets)

C30_Witness ==
    /\ last.op = "merge"
    /\ Touched = {0, 2}
    /\ hist.named[4] = "InputPullup" /\ hist.named[6] = "Output"
    /\ last.current = {1, 3, 5, 6, 7}
    /\ last.out = {0, 1, 3, 4, 6, 7}

\* thread t is inside a lock call, its bus transaction under way
InLock(t) == pc[t] \in {"refresh_in_lock", "write_back_in_lock"}

\* C22: with several threads on one adapter every bus transaction is made
\* inside exactly one lock call and no two are under way at once; a lock
\* call spans a single transaction, so a thread between two transactions
\* of its refresh or write_back does not hold the lock and another
\* thread's transaction can come in between.
C22_OneLockPerTransaction ==
    /\ Cardinality({t \in Threads : InLock(t)}) <= 1
    /\ \A t \in Threads : InLock(t) <=> holder = t
    /\ holder \in Threads \cup {0}
    /\ locks = Len(bus) + Cardinality({t \in Threads : InLock(t)})

C22_Witness ==
    \E i, j, k \in 1..Len(bus) :
        /\ i < j /\ j < k
        /\ bus[i].call = bus[k].call
        /\ bus[j].call # bus[i].call
        /\ bus[j].by # bus[i].by
        /\ bus[i].rw = "r" /\ bus[j].rw = "w"

\* ---------------------------------------------------- commit, error path
\* the value the successful writes of txs leave in register a of regsv
RECURSIVE WrittenBy(_, _, _)
WrittenBy(txs, regsv, a) ==
    IF txs = <<>> THEN regsv[a]
    ELSE LET tx == txs[Len(txs)]
         IN IF tx.ok /\ tx.rw = "w" /\ tx.addr = a THEN tx.val
            ELSE WrittenBy(SubSeq(txs, 1, Len(txs) - 1), regsv, a)

\* C31: a commit that returns an error has issued exactly one failing
\* transaction, as its last one and once only; the transactions before it
\* succeeded, address banks no higher than a failing bank's and have left
\* their writes in the device's registers; every other register, those of
\* the later banks and the Configuration register included, is as it was
\* before the commit.
C31_CommitStopsAtError ==
    (last.op = "commit" /\ last.res = "err")
    => LET n == Len(bus)
       IN /\ n >= 1
          /\ ~bus[n].ok
          /\ \A i \in 1..(n - 1) :
                /\ bus[i].ok
                /\ bus[i].addr \in 9..15
                /\ bus[n].addr = 4 \/ bus[i].addr <= bus[n].addr
                /\ ~(bus[i].addr = bus[n].addr /\ bus[i].rw = bus[n].rw)
          /\ \A a \in CfgAddrs : regs[a] = WrittenBy(bus, hist.pre, a)
          /\ regs[4] = hist.pre[4]

C31_Witness ==
    /\ last.op = "commit" /\ last.res = "err"
    /\ GlobalSet
    /\ hist.S = 6..13
    /\ Shape(bus) = << <<"r", 9>>, <<"w", 9>>, <<"w", 10>> >>
    /\ regs[9] # hist.pre[9]
    /\ regs[10] = hist.pre[10]
    /\ regs[11] = hist.pre[11]

\* ------------------------------------------- a configurator never committed
\* C35: the byte a commit writes to the Configuration register is that of
\* the global settings as the committed configurators and the committing
\* one have set them, the setters called on configurators dropped without
\* commit left out.
C35_DroppedHasNoEffect ==
    (last.op = "commit")
    => \A i \in 1..Len(bus) :
          (bus[i].addr = 4 /\ bus[i].rw = "w")
          => bus[i].val = ExpanderConfig_u8(hist.clean)

\* ------------------------------------------------------ the SPI interface
\* the calls a read_register makes when none fails
ReadCalls == <<"set_low", "write", "set_high", "set_low", "transfer",
               "set_high">>

\* every call on the wire succeeded
AllOk(w) == \A i \in 1..Len(w) : w[i].ok

\* the calls of w made on the chip-select pin
PinCalls(w) == {i \in 1..Len(w) : w[i].ev \in {"set_low", "set_high"}}

\* the calls of w made on the SPI master
SpiCalls(w) == {i \in 1..Len(w) : w[i].ev \in {"write", "transfer"}}

\* C32: read_register(addr) makes, in this order and each only if no
\* earlier call on the chip-select pin failed, set_low, a write of the
\* frame [addr | 0x80, 0], set_high, and then, only if that write
\* succeeded, set_low, a transfer of the frame [0x00, 0] and set_high; it
\* returns the low byte shifted back when all six calls succeeded and the
\* high byte shifted back is addr | 0x80, and the address error when all
\* six succeeded and it is not.
C32_ReadRegisterFrames ==
    (last.op = "read_register")
    => LET n == Len(wire)
           aw == last.addr + 128
       IN /\ n \in 1..6
          /\ \A i \in 1..n : wire[i].ev = ReadCalls[i]
          /\ \A i \in 1..(n - 1) : wire[i].ok \/ i \in SpiCalls(wire)
          /\ n >= 2 => wire[2].frame = <<aw, 0>>
          /\ n >= 5 => wire[5].frame = <<0, 0>>
          /\ (n >= 2 /\ ~wire[2].ok) => n = 3
          /\ (n < 6) => ~AllOk(wire)
          /\ (last.res = "ok")
                <=> (n = 6 /\ AllOk(wire) /\ wire[5].back[1] = aw)
          /\ (last.res = "ok") => last.val = wire[5].back[2]
          /\ (last.res = "AddressError")
                <=> (n = 6 /\ AllOk(wire) /\ wire[5].back[1] # aw)

C32_Witness ==
    /\ last.op = "read_register"
    /\ last.addr = 95
    /\ last.res = "ok" /\ last.val = 85
    /\ Len(wire) = 6
    /\ wire[2].frame = <<223, 0>>
    /\ wire[5].back = <<223, 85>>

\* C39: when write_register or read_register returns after set_low
\* succeeded and no call on the chip-select pin failed, every SPI call it
\* made is followed by a set_high, chip select is high, and if an SPI call
\* failed the result is that call's error: the write error for a write, the
\* transfer error for a transfer.
C39_ChipSelectReleased ==
    (/\ last.op \in {"write_register", "read_register"}
     /\ wire # <<>>
     /\ \A i \in PinCalls(wire) : wire[i].ok)
    => /\ cs = "high"
       /\ wire[Len(wire)].ev = "set_high"
       /\ \A i \in SpiCalls(wire) :
             /\ i < Len(wire)
             /\ wire[i + 1].ev = "set_high"
             /\ ~wire[i].ok
                   => last.res = (IF wire[i].ev = "write" THEN "WriteError"
                                  ELSE "TransferError")

C39_Witness ==
    /\ last.op = "read_register"
    /\ last.before = "low"
    /\ Len(wire) = 6
    /\ \A i \in 1..6 : wire[i].ok <=> i # 5
    /\ cs = "high"
    /\ last.res = "TransferError"

\* ----------------------------------------- the adapter, sequential use
\* C36: in sequential use, failed refresh and write_back calls included,
\* every port with a pending write is readable: dirty is a subset of fresh.
C36_DirtyWithinFresh == dirty \subseteq fresh

C36_Witness ==
    /\ last.op = "write_back" /\ last.res = "err"
    /\ sess.refreshed
    /\ dirty # {}
    /\ dirty # fresh
    /\ dirty \subseteq fresh

\* C37: in sequential use a port whose fresh bit is clear has cache bit 0,
\* and a StompAny batch write carries 0 for every port of its window whose
\* fresh bit is clear.
C37_StaleCacheIsZero ==
    /\ cache \subseteq fresh
    /\ (last.op = "write_back" /\ last.strategy = "StompAny")
          => \A i \in 1..Len(bus) :
                IsRange(bus[i].addr)
                   => \A p \in (Window(bus[i].addr) \cap Ports) \ fresh :
                         ~TxBit(bus[i], p)

C37_Witness ==
    /\ last.op = "write_back" /\ last.strategy = "StompAny"
    /\ last.res = "ok"
    /\ sess.refreshed
    /\ \E i \in 1..Len(bus) :
          /\ IsRange(bus[i].addr)
          /\ (Window(bus[i].addr) \cap Ports) \ fresh # {}
          /\ bus[i].val # {}

\* C38: refresh and write_back, under every strategy, address port
\* registers of ports 4..31 only and never panic; a batch write of StompAny
\* starts at port 24 at most.
C38_ValidRegistersOnly ==
    (last.op \in {"refresh", "write_back"})
    => /\ last.res # "panic"
       /\ \A i \in 1..Len(bus) :
             /\ bus[i].addr \in (SinglePortBase + FirstPort)
                                    ..(SinglePortBase + LastPort)
                   \/ bus[i].addr \in (PortRangeBase + FirstPort)
                                         ..(PortRangeBase + LastPort)
             /\ FirstPortOf(bus[i]) \in FirstPort..LastPort
             /\ (last.strategy = "StompAny" /\ IsRange(bus[i].addr))
                   => FirstPortOf(bus[i]) <= 24

C38_Witness ==
    /\ last.op = "write_back" /\ last.strategy = "StompAny"
    /\ last.res = "ok"
    /\ Len(bus) = 2
    /\ IsRange(bus[1].addr) /\ FirstPortOf(bus[1]) = 12
    /\ ~IsRange(bus[2].addr) /\ FirstPortOf(bus[2]) = 31

\* C40: a refresh issues at most 4 reads, each starting beyond the window
\* of the one before; a write_back issues at most 28 writes, each starting
\* above the one before.
C40_BoundedTraffic ==
    /\ (last.op = "refresh")
          => /\ Len(bus) <= 4
             /\ \A i \in 1..(Len(bus) - 1) :
                   FirstPortOf(bus[i + 1]) >= FirstPortOf(bus[i]) + 8
    /\ (last.op = "write_back")
          => /\ Len(bus) <= 28
             /\ \A i \in 1..(Len(bus) - 1) :
                   FirstPortOf(bus[i + 1]) > FirstPortOf(bus[i])

C40_Witness ==
    /\ last.op = "refresh" /\ last.res = "ok"
    /\ Len(bus) = 4
    /\ {FirstPortOf(bus[i]) : i \in 1..4} = {4, 12, 20, 28}

\* ------------------------------------------- pin writes under two threads
\* some successful bus write carries level bit for port p
Flushed(p, bit) ==
    \E i \in 1..Len(bus) :
        /\ bus[i].rw = "w" /\ bus[i].ok
        /\ p \in PortsAt(bus[i].addr)
        /\ TxBit(bus[i], p) = bit

\* no thread is inside a call
AllIdle == \A t \in Threads : pc[t] = "idle"

\* C33: with pin writes and write_back calls running on two threads and no
\* refresh, once every call has completed each port a user wrote either
\* has its dirty bit set or has had the bit of its latest write carried by
\* a bus write.
C33_NoWriteLost ==
    (AllIdle /\ sess.norefresh)
    => \A p \in pend.hi \cup pend.lo :
          p \in dirty \/ Flushed(p, p \in pend.hi)

\* C34: with pin writes and refresh running on two threads, a port whose
\* dirty bit is set has the bit of the latest user write to it in cache.
C34_DirtyCacheIsUserBit ==
    \A p \in dirty :
        /\ p \in pend.hi \cup pend.lo
        /\ (p \in cache) <=> (p \in pend.hi)

====
